---- MODULE Spec2Model ----
(***************************************************************************)
(* Plume-Farmer: the shared proxy pool (utils/resource_manager.py), the    *)
(* wallet store's proxy columns (utils/db_api_async/db_activity.py) and    *)
(* the retry loops of the wallet workers (functions/activity.py,           *)
(* tasks/http_client.py).                                                  *)
(*                                                                         *)
(* Tasks are asyncio coroutines: a task runs without interruption between  *)
(* two awaits, so every action below is the code between two suspension    *)
(* points of one task.                                                     *)
(***************************************************************************)
EXTENDS Integers, Sequences, FiniteSets, TLC

VARIABLES
    reserve_file,   \* lines of files/reserve_proxy.txt (config.RESERVE_PROXY_FILE)
    file0,          \* the lines the reserve file held when the run started
    rows,           \* ids that have a row in table "plume"
    users,          \* per id: the row of table "plume"
    auto_replace,   \* Settings.resources_auto_replace
    max_failures,   \* Settings.resources_max_failures
    wk,             \* per task: its position and its local variables
    calls,          \* per id: replace_proxy calls made so far: 0, 1, or 2 for two or more
    assigned,       \* per id: the reserve line last stored for it by replace_bad_proxy
    marks,          \* per task: mark_proxy_as_bad calls in the current retry loop
    last_net,       \* per task: outcome of its latest network call in the current loop
    retry_due,      \* per task: "replaced" once its replacement succeeded, "refetched" once
                    \* it read the wallet again, "none" from its next network call on
    since_fail,     \* per task: time slept since its replace_proxy call returned False
                    \* (-1: its latest call did not)
    plume,          \* per id: the wallet's native balance on Plume, in whole tokens
    bridge_use,     \* per source chain: Settings.use_<chain>_bridge
    chain_balance,  \* per source chain: the worker wallet's native balance on it
    bridge,         \* per task: the locals of process_bridge and what its call has done
    swap,           \* per task: the locals of process_swap and what its iteration has done
    specific_task,  \* the argument of the latest process_tasks call
    wallets,        \* the list of wallets that call selected
    started,        \* the wallets for which that call created a task
    delayed,        \* per task: its startup sleep has ended
    report,         \* what that call logged at its end
    tx,             \* the Tx object the library calls are made on
    replacement,    \* the Tx object its cancel or speed_up returned
    ledger,         \* the chain as the client sees it: head, account nonce, the
                    \* block and status of the transaction once mined
    call,           \* the locals of the running library call and what it has done
    broadcast,      \* the send_raw_transaction calls made, in order
    http,           \* per task: what its current BaseHttpClient.request call has done
    sweep           \* the locals of the replace_all_bad_proxies call and the rows
                    \* of the store when it was made

\* the chains and the bridge settings
chain_vars == <<plume, bridge_use, chain_balance>>

\* process_tasks
batch_vars == <<specific_task, wallets, started, delayed, report>>

\* libs/eth_async/transactions.py and tasks/base.py
tx_vars == <<tx, replacement, ledger, call, broadcast>>

vars == <<reserve_file, file0, rows, users, auto_replace, max_failures, wk, calls,
          assigned, marks, last_net, retry_due, since_fail, chain_vars, bridge,
          swap, batch_vars, tx_vars, http, sweep>>

-----------------------------------------------------------------------------
(* Bounds of the model *)

\* longest reserve file considered
MaxPool == 2
\* largest resources.max_failures considered
MaxThreshold == 4
\* cap on a failure counter that the code never resets
MaxErrors == 5

Wallets == {1, 2}

\* ids whose row may have been deleted from the store out of band
Deletable == {1}

\* the wallets a worker task runs for in the workflow specification
Workers == {1}

-----------------------------------------------------------------------------
(* Proxy strings.  A line is modelled by the shape parse_proxy looks at     *)
(* (fmt) and by the endpoint it names (id).                                 *)

Line(f, i) == [fmt |-> f, id |-> i]

\* Python's None where a proxy string is expected
NoProxy == Line("none", 0)
\* a line that is empty after strip()
Blank == Line("blank", 0)

\* the reserve lines considered: "u:p@h1" and "garbage"; a line of the shape
\* "h2:port:login:password" (fmt "fields") is stored like the first
Records == {Line("auth", 1), Line("junk", 3)}

FileLines == Records \cup {Blank}

parse_proxy(proxy) ==
    IF proxy.fmt = "url" THEN proxy
    ELSE IF proxy.fmt = "auth" THEN Line("url", proxy.id)
    ELSE IF proxy.fmt = "fields" THEN Line("url", proxy.id)
    ELSE NoProxy

-----------------------------------------------------------------------------
(* Sequence helpers *)

Range(s) == {s[i] : i \in 1..Len(s)}

SeqsUpTo(S, n) == UNION {[1..k -> S] : k \in 0..n}

Prefixes(s) == {SubSeq(s, 1, k) : k \in 0..Len(s)}

\* list.remove(x): drops the first occurrence of x
RemoveFirst(s, x) ==
    LET i == CHOOSE j \in 1..Len(s) : s[j] = x /\ \A k \in 1..(j-1) : s[k] # x
    IN  SubSeq(s, 1, i-1) \o SubSeq(s, i+1, Len(s))

-----------------------------------------------------------------------------
(* utils/resource_manager.py: the reserve file *)

\* the stripped non-empty lines; a missing or empty file gives []
load_from_file(file) == SelectSeq(file, LAMBDA l : l # Blank)

\* open(path, "w") and one write per line.  The possible outcomes: success
\* with the file holding data; failure with the file untouched (open failed)
\* or truncated to some prefix of data (a write or the close failed).
save_to_file(file, data) ==
    {[ok |-> TRUE, file |-> data]}
        \cup {[ok |-> FALSE, file |-> f] : f \in {file} \cup Prefixes(data)}

\* the possible results of one call: the proxy returned and the file left
get_available_proxy(file) ==
    LET all_proxies == load_from_file(file) IN
    IF all_proxies = <<>>
    THEN {[proxy |-> NoProxy, file |-> file]}
    ELSE UNION {
           {[proxy |-> proxy, file |-> saved.file] :
                saved \in save_to_file(file, RemoveFirst(all_proxies, proxy))} :
           proxy \in Range(all_proxies)}

-----------------------------------------------------------------------------
(* utils/db_api_async/db_activity.py: the proxy columns of table "plume" *)

\* a row of table "plume" (utils/db_api_async/models.py).  The key pair and
\* the user agent are unique to the wallet: they are modelled by its id.
User(user_id, p, s) ==
    [private_key |-> user_id, public_key |-> user_id, user_agent |-> user_id,
     proxy |-> p, proxy_status |-> s]

\* mark_proxy_as_bad as an update without its where clause
DB_mark_proxy_as_bad_EveryRow(u, present, user_id, db_error) ==
    IF db_error \/ user_id \notin present
    THEN [ok |-> FALSE, users |-> u]
    ELSE [ok |-> TRUE,
          users |-> [w \in DOMAIN u |-> [u[w] EXCEPT !.proxy_status = "BAD"]]]

\* db_error: session.get or session.commit raises
DB_mark_proxy_as_bad(u, present, user_id, db_error) ==
    IF db_error \/ user_id \notin present
    THEN [ok |-> FALSE, users |-> u]
    ELSE [ok |-> TRUE, users |-> [u EXCEPT ![user_id].proxy_status = "BAD"]]

\* replace_bad_proxy without its line user.proxy_status = "OK"
DB_replace_bad_proxy_KeepsStatus(u, present, user_id, new_proxy, db_error) ==
    IF db_error \/ user_id \notin present
    THEN [ok |-> FALSE, users |-> u]
    ELSE [ok |-> TRUE,
          users |-> [u EXCEPT ![user_id].proxy = parse_proxy(new_proxy)]]

DB_replace_bad_proxy(u, present, user_id, new_proxy, db_error) ==
    IF db_error \/ user_id \notin present
    THEN [ok |-> FALSE, users |-> u]
    ELSE [ok |-> TRUE,
          users |-> [u EXCEPT ![user_id].proxy = parse_proxy(new_proxy),
                              ![user_id].proxy_status = "OK"]]

-----------------------------------------------------------------------------
(* ResourceManager.replace_proxy return values: (success, message); proxy   *)
(* is the line interpolated into the message.                               *)

Ret(ok, message, proxy) == [ok |-> ok, message |-> message, proxy |-> proxy]

NoRet == Ret(FALSE, "", NoProxy)

\* replace_proxy answering an empty pool with the message of a store failure
NoReserveRet_StoreMessage == Ret(FALSE, "Failed to replace the proxy", NoProxy)

NoReserveRet == Ret(FALSE, "No available reserve proxies", NoProxy)

ReplaceFailedRet == Ret(FALSE, "Failed to replace the proxy", NoProxy)

ReplacedRet(new_proxy) == Ret(TRUE, "Proxy successfully replaced with", new_proxy)

-----------------------------------------------------------------------------
(* Program constants *)

\* the literal the retry loops of functions/activity.py compare proxy_errors with
HardThreshold == 3
\* asyncio.sleep(120) after a failed replacement
ReplaceCooldown == 120
\* BaseHttpClient.request(retries=5)
Retries == 5
\* balance_plume.Ether > 5
FundedThreshold == 5
\* int(nonce) >= 400
NonceTarget == 400

\* random.uniform(2, 3), by its end points
ErrorDelays == {2, 3}
BalanceValues == {0, FundedThreshold, FundedThreshold + 1}
NonceValues == {0, NonceTarget - 1, NonceTarget}

\* 2**n
RECURSIVE Pow2(_)
Pow2(n) == IF n <= 0 THEN 1 ELSE 2 * Pow2(n - 1)

Min(a, b) == IF a < b THEN a ELSE b

-----------------------------------------------------------------------------
(* A task's local state.                                                    *)
(*   op      the function whose loop the task is in ("none": in no loop)    *)
(*   caller  the function that called check_plume_balance                   *)
(*   pc      the next step: idle, read, mark, acquire, persist, refetch,    *)
(*           swap                                                           *)
(*   iter    1-based index of the current for-loop iteration                *)
(*   user_proxy    proxy of the function's `user` object                    *)
(*   client_proxy  the proxy its chain client was created with, in          *)
(*           request the proxy of request_kwargs: user.proxy at the start   *)
(*   result  what the task's last function returned                         *)

Local(op, caller, pc, errs, iter, new_proxy, ret, user_proxy, result) ==
    [op |-> op, caller |-> caller, pc |-> pc, proxy_errors |-> errs, iter |-> iter,
     new_proxy |-> new_proxy, ret |-> ret, user_proxy |-> user_proxy,
     client_proxy |-> user_proxy,
     result |-> result]

\* the locals of process_swap and what its current iteration has done:
\*   nonce         the local of that name (-1 before the first iteration)
\*   read          how the iteration's client.wallet.nonce() ended: ok, fail
\*   some_ok       a nonce read of this call has succeeded
\*   swaps         the swap_plume() calls of the iteration
\*   random_sleep  the sleep that followed its swap (-1: none)
SwapLocal(nonce, read, some_ok, swaps, random_sleep) ==
    [nonce |-> nonce, read |-> read, some_ok |-> some_ok, swaps |-> swaps,
     random_sleep |-> random_sleep]

NoSwap == SwapLocal(-1, "none", FALSE, 0, -1)

\* back in process_bridge, at step pc
BridgeStep(l, pc) ==
    [l EXCEPT !.op = "process_bridge", !.caller = "none", !.pc = pc,
              !.proxy_errors = 0, !.iter = 0]

\* the function of frame l returns value, or raises.  Inside the try block of
\* process_bridge: bridge_to_plume goes on when its request returned True and
\* raises otherwise, and what the poll of check_plume_balance raises is caught
\* by the except block.  Otherwise the task ends: its frame is gone.
Returned(l, value) ==
    IF l.op = "request" /\ l.caller = "bridge_to_plume"
    THEN BridgeStep(l, IF value = "True" THEN "submit" ELSE "except")
    ELSE IF l.op = "check_plume_balance" /\ l.caller = "arrival" /\ value = "raised"
    THEN BridgeStep(l, "except")
    ELSE Local("none", "none", "idle", 0, 0, NoProxy, NoRet, NoProxy, value)

\* a direct call of the ResourceManager returns to its caller
CallReturned(l) == [l EXCEPT !.pc = "idle"]

\* process_swap after its check_plume_balance call returned True:
\* create_client, proxy_errors = 0, while True.  Its `user` is the object it
\* was called with, whatever check_plume_balance bound its own `user` to.
EnterNonceLoop(l) ==
    [l EXCEPT !.op = "process_swap", !.caller = "none", !.pc = "read",
              !.proxy_errors = 0, !.iter = 0, !.user_proxy = l.client_proxy]

\* process_swap returns True at nonce 399 already
AfterNonce_OneShort(l, nonce) ==
    IF nonce >= NonceTarget - 1 THEN Returned(l, "True") ELSE [l EXCEPT !.pc = "swap"]

\* process_swap after a nonce read that succeeded: `if int(nonce) >= 400`
AfterNonce(l, nonce) ==
    IF nonce >= NonceTarget THEN Returned(l, "True") ELSE [l EXCEPT !.pc = "swap"]

\* check_plume_balance ending with `return True` whatever the balance is
ReturnBalance_IgnoresBalance(l, funded) ==
    IF l.caller = "process_swap" THEN EnterNonceLoop(l) ELSE Returned(l, "True")

\* return balance_plume.Ether > 5, seen from the caller
ReturnBalance(l, funded) ==
    IF l.caller = "process_swap"
    THEN IF funded THEN EnterNonceLoop(l) ELSE Returned(l, "False")
    ELSE IF l.caller = "process_bridge"
    THEN IF funded THEN Returned(l, "True") ELSE BridgeStep(l, "delay")
    ELSE IF l.caller = "arrival"
    THEN IF funded THEN Returned(l, "True") ELSE BridgeStep(l, "poll")
    ELSE Returned(l, IF funded THEN "True" ELSE "False")

\* BaseHttpClient.request looping over range(retries + 1)
Continue_ExtraAttempt(l, threshold) ==
    IF l.op = "check_plume_balance"
    THEN IF l.iter < threshold
         THEN [l EXCEPT !.iter = @ + 1, !.pc = "read"]
         ELSE ReturnBalance(l, 0 > FundedThreshold)
    ELSE IF l.op = "request"
    THEN IF l.iter < Retries + 1
         THEN [l EXCEPT !.iter = @ + 1, !.pc = "read"]
         ELSE Returned(l, "False")
    ELSE [l EXCEPT !.pc = "read"]

\* `continue`, or reaching the end of the loop body
Continue(l, threshold) ==
    IF l.op = "check_plume_balance"
    THEN IF l.iter < threshold
         THEN [l EXCEPT !.iter = @ + 1, !.pc = "read"]
         ELSE ReturnBalance(l, 0 > FundedThreshold)
    ELSE IF l.op = "request"
    THEN IF l.iter < Retries
         THEN [l EXCEPT !.iter = @ + 1, !.pc = "read"]
         ELSE Returned(l, "False")
    ELSE [l EXCEPT !.pc = "read"]

\* the failure branch of the two loops of functions/activity.py, after the sleep
AfterReadError(l, threshold) ==
    IF l.proxy_errors >= HardThreshold
    THEN [l EXCEPT !.pc = "mark"]
    ELSE Continue(l, threshold)

\* the CurlError branch of BaseHttpClient.request for a proxy/connection error
AfterProxyError(l, threshold) ==
    IF l.proxy_errors >= threshold
    THEN [l EXCEPT !.pc = "mark"]
    ELSE Continue(l, threshold)

\* after mark_proxy_as_bad returned.  With auto_replace off the except block
\* of process_swap ends without `continue`: nonce is still 0, the test
\* int(nonce) >= 400 fails and the swap follows.
AfterMark(l, auto, threshold) ==
    IF l.op = "none" THEN CallReturned(l)
    ELSE IF auto THEN [l EXCEPT !.pc = "acquire"]
    ELSE IF l.op = "process_swap"
    THEN IF 0 >= NonceTarget THEN Returned(l, "True") ELSE [l EXCEPT !.pc = "swap"]
    ELSE Continue(l, threshold)

\* after replace_proxy returned ret
AfterReplace(l, ret, threshold) ==
    LET m == [l EXCEPT !.ret = ret] IN
    IF l.op = "none" THEN CallReturned(m)
    ELSE IF ret.ok THEN [m EXCEPT !.pc = "refetch"]
    ELSE Continue(m, threshold)

\* the wallet is read again from the store after a replacement
AfterRefetch(l, row, found, threshold) ==
    IF l.op = "request"
    THEN Continue(IF found
                  THEN [l EXCEPT !.user_proxy = row.proxy, !.client_proxy = row.proxy,
                                 !.proxy_errors = 0]
                  ELSE l, threshold)
    ELSE Continue([l EXCEPT !.user_proxy = IF found THEN row.proxy ELSE NoProxy],
                  threshold)

\* time slept since the last failed replacement, saturating at the cooldown
Slept(t, d) == IF t < 0 THEN t ELSE Min(t + d, ReplaceCooldown)

\* the sleep that follows a replace_proxy that returned False
FailedReplaceSleep(l) ==
    IF l.op = "request" THEN Pow2(l.iter - 1) ELSE ReplaceCooldown

\* since_fail of a task whose replace_proxy call returned, ok or not; a caller
\* outside the retry loops is not timed
AfterReplaceTimer(l, ok, t) ==
    IF l.op = "none" THEN t
    ELSE IF ok THEN -1
    ELSE Slept(0, FailedReplaceSleep(l))

-----------------------------------------------------------------------------
(* functions/activity.py: the source chains of the bridge *)

\* in the order get_random_network_for_bridge asks them
Chains == {"Base", "Arbitrum", "Optimism"}

\* a native balance in wei: gwei * 10^9 + wei
Amount(g, w) == [gwei |-> g, wei |-> w]

\* MINIMAL_BALANCE_FOR_WORK = 0.0008 is a float.  The double nearest to 0.0008
\* is 0.000800000000000000038337...: 800000 gwei and 38 thousandths of a wei.
FloorGwei == 800000
FloorMilliWei == 38

MINIMAL_BALANCE_FOR_WORK == [gwei |-> FloorGwei, milliwei |-> FloorMilliWei]

\* balance.Ether >= MINIMAL_BALANCE_FOR_WORK: TokenAmount.Ether is the Decimal
\* Wei / 10**18, and a Decimal is compared with a float by exact value
ReadyForWork(balance) ==
    \/ balance.gwei > MINIMAL_BALANCE_FOR_WORK.gwei
    \/ /\ balance.gwei = MINIMAL_BALANCE_FOR_WORK.gwei
       /\ balance.wei * 1000 >= MINIMAL_BALANCE_FOR_WORK.milliwei

\* the balances considered: 0, one wei below 0.0008, 0.0008, one wei above, 0.002
SourceBalances ==
    {Amount(0, 0), Amount(FloorGwei - 1, 999999999), Amount(FloorGwei, 0),
     Amount(FloorGwei, 1), Amount(2 * FloorGwei + FloorGwei \div 2, 0)}

\* the values get_random_network_for_bridge can return when every balance
\* read succeeds: random.shuffle(balance_ready_for_work)[0], or False
get_random_network_for_bridge(use, balance) ==
    LET balance_ready_for_work == {c \in Chains : use[c] /\ ReadyForWork(balance[c])} IN
    IF balance_ready_for_work = {} THEN {"False"} ELSE balance_ready_for_work

-----------------------------------------------------------------------------
(* The locals of process_bridge, and what its current call has done so far  *)
(*   network     what get_random_network_for_bridge returned ("none": not   *)
(*               called yet)                                                *)
(*   attempt     1-based index of the iteration of `for _ in               *)
(*               range(max_failures)` (0: before the loop)                  *)
(*   selections  calls of get_random_network_for_bridge                     *)
(*   tx_log      the outcome of every transaction submitted, in order       *)
(*   slept       the sleep of the except block that preceded this attempt   *)
(*               (-1: none)                                                 *)
(*   pause       the sleep that preceded the latest poll (-1: no poll yet)  *)
(*   last        how the latest attempt ended                               *)

BridgeLocal(network, attempt, selections, tx_log, slept, pause, last) ==
    [network |-> network, attempt |-> attempt, selections |-> selections,
     tx_log |-> tx_log, slept |-> slept, pause |-> pause, last |-> last]

NoBridge == BridgeLocal("none", 0, 0, <<>>, -1, -1, "none")

\* BaseHttpClient.request, as far as its current call has come:
\*   attempts  the HTTP calls made
\*   status    what the latest one gave: "ok" (status 200 or 202), "refused"
\*             (another status, or a CurlError that names neither proxy nor
\*             connection), "curl" (a CurlError that does), "error" (any
\*             other exception)
\*   data      the body of a response with status 200 or 202: "quote" (the
\*             steps of a relay quote), "malformed" (no such steps), "empty"
\*   slept     the sleep that ended the latest failed attempt (-1: none)
\*   ended     how the call ended: "True", "False", "raised" ("none": it runs)
Http(attempts, status, data, slept, ended) ==
    [attempts |-> attempts, status |-> status, data |-> data, slept |-> slept,
     ended |-> ended]

NoHttp == Http(0, "none", "none", -1, "none")

\* the bodies a status 200 or 202 can come with
Responses == {"quote", "malformed", "empty"}

\* process_tasks has not run, or has not reached its last line
NoReport == [state |-> "none", success_count |-> 0, error_count |-> 0]

-----------------------------------------------------------------------------
(* libs/eth_async/transactions.py: the Tx object and what the client sees.  *)
(* Transactions are legacy ones (gasPrice); a key a params dict does not    *)
(* have is -1 or "absent".                                                  *)

Params(nonce, to, value, data, gasPrice, gas) ==
    [nonce |-> nonce, to |-> to, value |-> value, data |-> data,
     gasPrice |-> gasPrice, gas |-> gas]

\* params is None (or an empty dict): `not self.params`
NoParams == Params(-1, "absent", -1, "absent", -1, -1)

\* the hash of a signed transaction is a function of what was signed
Hash(p) == <<p.nonce, p.to, p.value, p.data, p.gasPrice, p.gas>>

\* hash is None
NoHash == <<>>

Receipt(blockNumber, status, confirmations) ==
    [blockNumber |-> blockNumber, status |-> status, confirmations |-> confirmations]

\* receipt is None
NoReceipt == Receipt(-1, -1, -1)

\* Tx.__init__(tx_hash, params)
Tx(tx_hash, params) == [hash |-> tx_hash, params |-> params, receipt |-> NoReceipt]

\* no Tx object
NoTx == Tx(NoHash, NoParams)

\* the locals of a library call and what the call has done so far
\*   op, pc        the function and its next step (idle: no call is running)
\*   outcome       how the latest call ended
\*   before        the Tx object as it was when the call began
\*   polled        a receipt or confirmation wait of the Tx has succeeded
\*   confirmations, timeout, elapsed, receipt
\*                 wait_for_confirmations: its arguments, the time spent in
\*                 poll intervals, its local receipt
\*   retry_count, attempt, errors, sleeps, waits, result
\*                 execute_transaction: its argument, its counter, the error,
\*                 the backoff sleep of each failed attempt, what the
\*                 receipt wait of each attempt gave, and the
\*                 TransactionResult
\*   tx_params, submitted
\*                 execute_transaction: the dict it hands to sign_and_send,
\*                 which fills it in place, and how often it called it
NoResult == [success |-> FALSE, error_message |-> "none", receipt |-> NoReceipt]

NoCall ==
    [op |-> "none", pc |-> "idle", outcome |-> "none", before |-> NoTx, polled |-> FALSE,
     confirmations |-> 0, timeout |-> 0, elapsed |-> 0, receipt |-> NoReceipt,
     retry_count |-> 0, attempt |-> 0, errors |-> <<>>, sleeps |-> <<>>,
     waits |-> <<>>, result |-> NoResult, tx_params |-> NoParams, submitted |-> 0]

\* nothing mined yet: block 0
Ledger(head, count, block, status, tx_data) ==
    [head |-> head, count |-> count, block |-> block, status |-> status,
     tx_data |-> tx_data]

NoLedger == Ledger(1, 0, 0, -1, NoParams)

-----------------------------------------------------------------------------
(* Initial states *)

IdleLocal == Local("none", "none", "idle", 0, 0, NoProxy, NoRet, NoProxy, "none")

\* the proxy a wallet was imported with
ImportedProxy(w) == Line("url", 10 + w)

\* the locals of replace_all_bad_proxies:
\*   pc           idle, next (at the head of its for loop), wait (in its
\*                replace_proxy call), done, raised
\*   bad_proxies  the list get_wallets_with_bad_proxy returned, as ids
\*   visited      the wallets of that list the loop has reached
\*   replaced     the local of that name
\*   result       the tuple returned
\*   users0       the rows of the store when the call was made
Sweep(pc, bad_proxies, visited, replaced, result, users0) ==
    [pc |-> pc, bad_proxies |-> bad_proxies, visited |-> visited,
     replaced |-> replaced, result |-> result, users0 |-> users0]

NoSweep == Sweep("idle", <<>>, 0, 0, <<>>, <<>>)

\* no task exists yet and no process_tasks call has been made
InitIdle ==
    /\ wk = [w \in Wallets |-> IdleLocal]
    /\ calls = [w \in Wallets |-> 0]
    /\ assigned = [w \in Wallets |-> NoProxy]
    /\ marks = [w \in Wallets |-> 0]
    /\ last_net = [w \in Wallets |-> "none"]
    /\ retry_due = [w \in Wallets |-> "none"]
    /\ since_fail = [w \in Wallets |-> -1]
    /\ bridge = [w \in Wallets |-> NoBridge]
    /\ swap = [w \in Wallets |-> NoSwap]
    /\ http = [w \in Wallets |-> NoHttp]
    /\ specific_task = "none"
    /\ wallets = <<>>
    /\ started = {}
    /\ delayed = [w \in Wallets |-> FALSE]
    /\ report = NoReport
    /\ sweep = NoSweep

InitTasks ==
    /\ users = [w \in Wallets |-> User(w, ImportedProxy(w), "OK")]
    /\ InitIdle

\* no transaction has been built
InitNoTx ==
    /\ tx = NoTx
    /\ replacement = NoTx
    /\ ledger = NoLedger
    /\ call = NoCall
    /\ broadcast = <<>>

InitShared ==
    /\ reserve_file \in SeqsUpTo(FileLines, MaxPool)
    /\ file0 = reserve_file
    /\ rows \in {Wallets \ gone : gone \in SUBSET Deletable}
    /\ InitTasks
    /\ InitNoTx

\* files/settings.json defaults: every source chain enabled
DefaultBridgeUse == [c \in Chains |-> TRUE]

NoFunds == [c \in Chains |-> Amount(0, 0)]

\* files/settings.json defaults: auto_replace true, max_failures 3
Init ==
    /\ InitShared
    /\ auto_replace = TRUE
    /\ max_failures = HardThreshold
    /\ plume = [w \in Wallets |-> 0]
    /\ bridge_use = DefaultBridgeUse
    /\ chain_balance = NoFunds

InitWorkflow ==
    /\ InitShared
    /\ auto_replace \in BOOLEAN
    /\ max_failures \in 1..MaxThreshold
    /\ plume \in {[w \in Wallets |-> IF w \in Workers THEN b ELSE 0] : b \in BalanceValues}
    /\ bridge_use = DefaultBridgeUse
    /\ chain_balance = NoFunds

-----------------------------------------------------------------------------
(* One step of task w: its new local state n and what the step adds to the  *)
(* histories of its retry loop.  The loop histories (marks, last_net,       *)
(* since_fail) start again when a loop is entered or left; retry_due is     *)
(* kept until the task's next network call or next function.                *)

Step(w, n, m, net, due, slept) ==
    LET fresh == n.op # wk[w].op IN
    /\ wk' = [wk EXCEPT ![w] = n]
    /\ marks' = [marks EXCEPT ![w] = IF fresh THEN 0 ELSE m]
    /\ last_net' = [last_net EXCEPT ![w] = IF fresh THEN "none" ELSE net]
    /\ since_fail' = [since_fail EXCEPT ![w] = IF fresh THEN -1 ELSE slept]
    /\ retry_due' = [retry_due EXCEPT ![w] = due]

\* BaseHttpClient.request: `await asyncio.sleep(2**attempt)` and `continue`
\* at the end of the CurlError branch of frame l, if that end is reached
\* (reached: the branch ends here, without an exception)
Backoff(w, l, reached) ==
    IF l.op = "request" /\ reached
    THEN [http EXCEPT ![w].slept = Pow2(l.iter - 1),
                      ![w].ended = IF l.iter < Retries THEN "none" ELSE "False"]
    ELSE http

-----------------------------------------------------------------------------
(* ResourceManager, one step per stretch of code between two awaits *)

\* ResourceManager.mark_proxy_as_bad(user_id)
MarkProxyAsBad(w) ==
    LET l == wk[w] IN
    /\ \E db_error \in BOOLEAN :
         LET r == DB_mark_proxy_as_bad(users, rows, w, db_error)
             n == AfterMark(l, auto_replace, max_failures)
         IN  /\ users' = r.users
             /\ Step(w, n, IF l.op = "none" THEN marks[w] ELSE Min(marks[w] + 1, 2),
                     last_net[w], retry_due[w],
                     IF l.op = "request" /\ n.pc # "acquire"
                     THEN Slept(since_fail[w], Pow2(l.iter - 1)) ELSE since_fail[w])
             /\ http' = Backoff(w, l, n.pc # "acquire")
    /\ UNCHANGED <<reserve_file, file0, rows, auto_replace, max_failures, calls, assigned, tx_vars, sweep>>
    /\ UNCHANGED <<chain_vars, bridge, swap, batch_vars>>

\* ResourceManager.replace_proxy(user_id) up to its first await:
\* _get_available_proxy, and the return when it gave None
ReplaceProxy(w) ==
    LET l == wk[w] IN
    /\ \E got \in get_available_proxy(reserve_file) :
         LET m == [l EXCEPT !.new_proxy = got.proxy] IN
         /\ reserve_file' = got.file
         /\ calls' = [calls EXCEPT ![w] = Min(@ + 1, 2)]
         /\ IF got.proxy = NoProxy
            THEN Step(w, AfterReplace(m, NoReserveRet, max_failures), marks[w],
                      last_net[w], retry_due[w],
                      AfterReplaceTimer(l, FALSE, since_fail[w]))
            ELSE Step(w, [m EXCEPT !.pc = "persist"], marks[w], last_net[w],
                      retry_due[w], since_fail[w])
         /\ http' = Backoff(w, l, got.proxy = NoProxy)
    /\ UNCHANGED <<file0, rows, users, auto_replace, max_failures, assigned, tx_vars>>
    /\ UNCHANGED <<chain_vars, bridge, swap, batch_vars>>

\* the rest of replace_proxy: db.replace_bad_proxy(user_id, new_proxy)
Persist(w) ==
    LET l == wk[w] IN
    /\ l.pc = "persist"
    /\ \E db_error \in BOOLEAN :
         LET r == DB_replace_bad_proxy(users, rows, w, l.new_proxy, db_error)
             ret == IF r.ok THEN ReplacedRet(l.new_proxy) ELSE ReplaceFailedRet
         IN  /\ users' = r.users
             /\ assigned' = [assigned EXCEPT ![w] = IF r.ok THEN l.new_proxy ELSE @]
             /\ Step(w, AfterReplace(l, ret, max_failures), marks[w], last_net[w],
                     IF r.ok /\ l.op # "none" THEN "replaced" ELSE retry_due[w],
                     AfterReplaceTimer(l, r.ok, since_fail[w]))
             /\ http' = Backoff(w, l, ~r.ok)
    /\ UNCHANGED <<reserve_file, file0, rows, auto_replace, max_failures, calls, tx_vars, sweep>>
    /\ UNCHANGED <<chain_vars, bridge, swap, batch_vars>>

\* some caller invokes mark_proxy_as_bad for wallet w
CallMark(w) == wk[w].pc = "idle" /\ MarkProxyAsBad(w)

\* some caller invokes replace_proxy for wallet w
CallReplace(w) == wk[w].pc = "idle" /\ ReplaceProxy(w) /\ UNCHANGED sweep

Next ==
    \E w \in Wallets :
        \/ CallMark(w)
        \/ CallReplace(w)
        \/ Persist(w)

Spec == Init /\ [][Next]_vars

-----------------------------------------------------------------------------
(* ResourceManager.replace_all_bad_proxies *)

\* DB.get_wallets_with_bad_proxy: the rows whose proxy_status is "BAD"
get_wallets_with_bad_proxy(u, present) == {w \in present : u[w].proxy_status = "BAD"}

\* the orders in which a query without ORDER BY may return the rows
Orders(S) ==
    {o \in [1..Cardinality(S) -> S] : \A i, j \in DOMAIN o : o[i] = o[j] => i = j}

\* what a step of replace_all_bad_proxies itself leaves alone
sweep_rest == <<reserve_file, file0, rows, users, auto_replace, max_failures, wk, calls,
                assigned, marks, last_net, retry_due, since_fail, chain_vars, bridge,
                swap, batch_vars, tx_vars, http>>

\* replaced = 0 and the query; what the query raises is not caught
ReplaceAllStart ==
    /\ sweep.pc = "idle"
    /\ \/ sweep' = Sweep("raised", <<>>, 0, 0, <<>>, users)
       \/ \E bad_proxies \in Orders(get_wallets_with_bad_proxy(users, rows)) :
            sweep' = Sweep("next", bad_proxies, 0, 0, <<>>, users)
    /\ UNCHANGED sweep_rest

\* the loop reaches its next wallet: self.replace_proxy(wallet.id)
ReplaceAllCall(w) ==
    /\ sweep.pc = "next"
    /\ sweep.visited < Len(sweep.bad_proxies)
    /\ w = sweep.bad_proxies[sweep.visited + 1]
    /\ wk[w].pc = "idle"
    /\ ReplaceProxy(w)
    /\ sweep' = [sweep EXCEPT !.pc = "wait", !.visited = @ + 1]

\* replace_proxy returned: `if success: replaced += 1`
ReplaceAllCount ==
    /\ sweep.pc = "wait"
    /\ LET w == sweep.bad_proxies[sweep.visited] IN
         /\ wk[w].pc = "idle"
         /\ sweep' = [sweep EXCEPT !.pc = "next",
                                   !.replaced = IF wk[w].ret.ok THEN @ + 1 ELSE @]
    /\ UNCHANGED sweep_rest

\* the list is exhausted: return replaced, len(bad_proxies)
ReplaceAllReturn ==
    /\ sweep.pc = "next"
    /\ sweep.visited = Len(sweep.bad_proxies)
    /\ sweep' = [sweep EXCEPT !.pc = "done",
                              !.result = <<sweep.replaced, Len(sweep.bad_proxies)>>]
    /\ UNCHANGED sweep_rest

\* the store after any number of mark_proxy_as_bad calls, no task running
InitSweep ==
    /\ reserve_file \in SeqsUpTo(FileLines, MaxPool)
    /\ file0 = reserve_file
    /\ rows \in {Wallets \ gone : gone \in SUBSET Deletable}
    /\ users \in {[w \in Wallets |-> User(w, ImportedProxy(w), status[w])] :
                     status \in [Wallets -> {"OK", "BAD"}]}
    /\ InitIdle
    /\ InitNoTx
    /\ auto_replace = TRUE
    /\ max_failures = HardThreshold
    /\ plume = [w \in Wallets |-> 0]
    /\ bridge_use = DefaultBridgeUse
    /\ chain_balance = NoFunds

NextSweep ==
    \/ ReplaceAllStart
    \/ \E w \in Wallets : ReplaceAllCall(w)
    \/ \E w \in Wallets : Persist(w)
    \/ ReplaceAllCount
    \/ ReplaceAllReturn

SpecSweep == InitSweep /\ [][NextSweep]_vars

-----------------------------------------------------------------------------
(* functions/activity.py and tasks/http_client.py: the retry loops *)

\* a function with a retry loop is entered by task w
Enter(w, op, caller) ==
    /\ wk[w].pc = "idle"
    /\ wk' = [wk EXCEPT ![w] =
                Local(op, caller, "read", 0, 1, NoProxy, NoRet, users[w].proxy, "none")]
    /\ marks' = [marks EXCEPT ![w] = 0]
    /\ last_net' = [last_net EXCEPT ![w] = "none"]
    /\ retry_due' = [retry_due EXCEPT ![w] = "none"]
    /\ since_fail' = [since_fail EXCEPT ![w] = -1]
    /\ swap' = [swap EXCEPT ![w] = NoSwap]
    /\ http' = [http EXCEPT ![w] = NoHttp]
    /\ UNCHANGED <<reserve_file, file0, rows, users, auto_replace, max_failures, calls,
                   assigned, chain_vars, bridge, batch_vars, tx_vars, sweep>>

\* check_plume_balance(user) is called: create_client, proxy_errors = 0
StartCheckBalance(w) == Enter(w, "check_plume_balance", "none")

\* process_swap(user) is called: it starts with check_plume_balance(user)
StartSwap(w) == Enter(w, "check_plume_balance", "process_swap")

\* BaseHttpClient(user) is built (proxy_errors = 0) and request() is called
StartRequest(w) == Enter(w, "request", "none")

\* check_plume_balance: one iteration's client_plume.wallet.balance()
BalanceRead(w) ==
    LET l == wk[w] IN
    /\ l.op = "check_plume_balance" /\ l.pc = "read"
    /\ \/ Step(w, ReturnBalance(l, plume[w] > FundedThreshold), marks[w], "ok",
               "none", since_fail[w])
       \/ \E error_delay \in ErrorDelays :
            Step(w, AfterReadError([l EXCEPT !.proxy_errors = @ + 1], max_failures),
                 marks[w], "fail", "none", Slept(since_fail[w], error_delay))
    /\ UNCHANGED <<reserve_file, file0, rows, users, auto_replace, max_failures, calls,
                   assigned, chain_vars, bridge, swap, batch_vars, tx_vars, http, sweep>>

\* process_swap: one iteration's client.wallet.nonce()
NonceRead(w) ==
    LET l == wk[w] IN
    /\ l.op = "process_swap" /\ l.pc = "read"
    /\ \/ \E nonce \in NonceValues :
            /\ Step(w, AfterNonce(l, nonce), marks[w], "ok", "none", since_fail[w])
            /\ swap' = [swap EXCEPT ![w] = SwapLocal(nonce, "ok", TRUE, 0, -1)]
       \/ /\ l.proxy_errors < MaxErrors
          /\ \E error_delay \in ErrorDelays :
               Step(w, AfterReadError([l EXCEPT !.proxy_errors = @ + 1], max_failures),
                    marks[w], "fail", "none", Slept(since_fail[w], error_delay))
          /\ swap' = [swap EXCEPT ![w] = SwapLocal(0, "fail", @.some_ok, 0, -1)]
    /\ UNCHANGED <<reserve_file, file0, rows, users, auto_replace, max_failures, calls,
                   assigned, chain_vars, bridge, batch_vars, tx_vars, http, sweep>>

\* random.randint(min_sleep, max_sleep) with the default settings, by its end points
SwapDelays == {0, 30}

\* process_swap: swap_plume(), the sleep between swaps, continue
Swap(w) ==
    LET l == wk[w] IN
    /\ l.op = "process_swap" /\ l.pc = "swap"
    /\ \/ \E random_sleep \in SwapDelays :
            /\ Step(w, Continue(l, max_failures), marks[w], last_net[w], retry_due[w],
                    Slept(since_fail[w], random_sleep))
            /\ swap' = [swap EXCEPT ![w].swaps = @ + 1, ![w].random_sleep = random_sleep]
       \/ \* swap_plume raises
          /\ Step(w, Returned(l, "raised"), marks[w], last_net[w], retry_due[w],
                  since_fail[w])
          /\ swap' = [swap EXCEPT ![w].swaps = @ + 1]
    /\ UNCHANGED <<reserve_file, file0, rows, users, auto_replace, max_failures, calls,
                   assigned, chain_vars, bridge, batch_vars, tx_vars, http, sweep>>

\* BaseHttpClient.request: one attempt
HttpAttempt(w) ==
    LET l == wk[w]
        backoff == Pow2(l.iter - 1)
    IN
    /\ l.op = "request" /\ l.pc = "read"
    /\ \/ \* status 200 or 202: return True, resp.json() or resp.text
          /\ Step(w, Returned([l EXCEPT !.proxy_errors = 0], "True"), marks[w], "ok",
                  "none", since_fail[w])
          /\ \E data \in Responses :
                http' = [http EXCEPT ![w] = Http(@.attempts + 1, "ok", data, -1, "True")]
       \/ \* another status, or a CurlError that names no proxy or connection
          /\ Step(w, Continue(l, max_failures), marks[w], "other", "none",
                  Slept(since_fail[w], backoff))
          /\ http' = [Backoff(w, l, TRUE) EXCEPT ![w].attempts = @ + 1,
                                                ![w].status = "refused"]
       \/ \* a CurlError that names the proxy or the connection
          LET n == AfterProxyError([l EXCEPT !.proxy_errors = @ + 1], max_failures) IN
          /\ Step(w, n, marks[w], "fail", "none",
                  IF n.pc = "mark" THEN since_fail[w] ELSE Slept(since_fail[w], backoff))
          /\ http' = [Backoff(w, l, n.pc # "mark") EXCEPT
                        ![w].attempts = @ + 1, ![w].status = "curl",
                        ![w].slept = IF n.pc = "mark" THEN -1 ELSE @]
       \/ \* any other exception
          /\ Step(w, Returned(l, "False"), marks[w], "other", "none", since_fail[w])
          /\ http' = [http EXCEPT ![w] = Http(@.attempts + 1, "error", "none", -1, "False")]
    /\ UNCHANGED <<reserve_file, file0, rows, users, auto_replace, max_failures, calls,
                   assigned, chain_vars, bridge, swap, batch_vars, tx_vars, sweep>>

\* a retry loop calls mark_proxy_as_bad(user.id)
Mark(w) == wk[w].pc = "mark" /\ MarkProxyAsBad(w)

\* a retry loop calls replace_proxy(user.id)
Acquire(w) == wk[w].pc = "acquire" /\ ReplaceProxy(w) /\ UNCHANGED sweep

\* after a successful replacement: the wallet is read again from the store
Refetch(w) ==
    LET l == wk[w] IN
    /\ l.pc = "refetch"
    /\ \/ /\ Step(w, AfterRefetch(l, users[w], w \in rows, max_failures), marks[w],
                  last_net[w], "refetched", since_fail[w])
          /\ http' = Backoff(w, l, TRUE)
       \/ \* the store raises: the exception leaves the except block and the function
          /\ Step(w, Returned(l, "raised"), marks[w], last_net[w], "none", since_fail[w])
          /\ http' = IF l.op = "request" THEN [http EXCEPT ![w].ended = "raised"]
                     ELSE http
    /\ UNCHANGED <<reserve_file, file0, rows, users, auto_replace, max_failures, calls,
                   assigned, chain_vars, bridge, swap, batch_vars, tx_vars, sweep>>

NextWorkflow ==
    \E w \in Workers :
        \/ StartCheckBalance(w)
        \/ StartSwap(w)
        \/ StartRequest(w)
        \/ BalanceRead(w)
        \/ NonceRead(w)
        \/ Swap(w)
        \/ HttpAttempt(w)
        \/ Mark(w)
        \/ Acquire(w)
        \/ Persist(w)
        \/ Refetch(w)

SpecWorkflow == InitWorkflow /\ [][NextWorkflow]_vars

\* process_swap alone: every wallet in the store, the reserve file holding
\* well-formed records only
InitSwap ==
    /\ InitShared
    /\ reserve_file \in SeqsUpTo({Line("auth", 1)}, MaxPool)
    /\ rows = Wallets
    /\ auto_replace \in BOOLEAN
    /\ max_failures \in 1..MaxThreshold
    /\ plume \in {[w \in Wallets |-> IF w \in Workers THEN b ELSE 0] : b \in BalanceValues}
    /\ bridge_use = DefaultBridgeUse
    /\ chain_balance = NoFunds

NextSwap ==
    \E w \in Workers :
        \/ StartSwap(w)
        \/ BalanceRead(w)
        \/ NonceRead(w)
        \/ Swap(w)
        \/ Mark(w)
        \/ Acquire(w)
        \/ Persist(w)
        \/ Refetch(w)

SpecSwap == InitSwap /\ [][NextSwap]_vars

\* check_plume_balance alone, called for a wallet
NextBalance ==
    \E w \in Workers :
        \/ StartCheckBalance(w)
        \/ BalanceRead(w)
        \/ Mark(w)
        \/ Acquire(w)
        \/ Persist(w)
        \/ Refetch(w)

SpecBalance == InitSwap /\ [][NextBalance]_vars

-----------------------------------------------------------------------------
(* functions/activity.py: get_random_network_for_bridge *)

\* get_random_network_for_bridge returning False sends process_bridge to its
\* except block, to sleep and try again
AfterSelect_Retries(l, network) ==
    IF l.op = "none" THEN CallReturned(l)
    ELSE IF network = "False" THEN BridgeStep(l, "except")
    ELSE [l EXCEPT !.pc = "attempt"]

\* the caller of get_random_network_for_bridge after it returned network:
\* process_bridge raises on False, and creates the client of the chain otherwise
AfterSelect(l, network) ==
    IF l.op = "none" THEN CallReturned(l)
    ELSE IF network = "False" THEN Returned(l, "raised")
    ELSE [l EXCEPT !.pc = "attempt"]

\* get_random_network_for_bridge(user): the balance reads of the enabled
\* chains, the shuffle, the return; any of the reads may raise
SelectNetwork(w) ==
    LET l == wk[w]
        b == [bridge[w] EXCEPT !.selections = Min(@ + 1, 2)]
    IN
    /\ \/ \E network \in get_random_network_for_bridge(bridge_use, chain_balance) :
            /\ bridge' = [bridge EXCEPT ![w] =
                            [b EXCEPT !.network = network,
                                      !.attempt = IF l.op = "none" \/ network = "False"
                                                  THEN @ ELSE 1]]
            /\ Step(w, AfterSelect(l, network), marks[w], last_net[w], retry_due[w],
                    since_fail[w])
       \/ /\ \E c \in Chains : bridge_use[c]
          /\ bridge' = [bridge EXCEPT ![w] = b]
          /\ Step(w, Returned(l, "raised"), marks[w], last_net[w], retry_due[w],
                  since_fail[w])
    /\ UNCHANGED <<reserve_file, file0, rows, users, auto_replace, max_failures, calls,
                   assigned, chain_vars, swap, batch_vars, tx_vars, http, sweep>>

\* some caller invokes get_random_network_for_bridge for wallet w
CallSelect(w) == wk[w].pc = "idle" /\ SelectNetwork(w)

\* every bridge setting and every combination of the balances considered
InitSelect ==
    /\ InitShared
    /\ reserve_file = <<>>
    /\ rows = Wallets
    /\ auto_replace = TRUE
    /\ max_failures = HardThreshold
    /\ plume = [w \in Wallets |-> 0]
    /\ bridge_use \in [Chains -> BOOLEAN]
    /\ chain_balance \in [Chains -> SourceBalances]

NextSelect == \E w \in Workers : CallSelect(w)

SpecSelect == InitSelect /\ [][NextSelect]_vars

-----------------------------------------------------------------------------
(* functions/activity.py: process_bridge, and process_tasks around it *)

\* the interval between two polls of the Plume balance
PollInterval == 5

\* random.randint(0, 30), by its end points
BridgeBackoffs == {0, 30}

\* an exception among the gathered results is counted nowhere
Tally_SkipsExceptions(results) ==
    [state |-> "counted",
     success_count |-> Cardinality({w \in DOMAIN results : results[w] = "True"}),
     error_count |-> Cardinality({w \in DOMAIN results : results[w] = "False"})]

\* success_count and error_count of process_tasks for the gathered results
Tally(results) ==
    [state |-> "counted",
     success_count |-> Cardinality({w \in DOMAIN results : results[w] = "True"}),
     error_count |-> Cardinality({w \in DOMAIN results : results[w] \in {"raised", "False"}})]

\* process_tasks("bridge") creates the task process_bridge(wallet, delay=True),
\* which starts with check_plume_balance(user)
StartBridge(w) ==
    /\ wk[w].pc = "idle"
    /\ started = {} \/ report.state # "none"
    /\ Step(w, Local("check_plume_balance", "process_bridge", "read", 0, 1, NoProxy,
                     NoRet, users[w].proxy, "none"), 0, "none", "none", -1)
    /\ bridge' = [bridge EXCEPT ![w] = NoBridge]
    /\ specific_task' = "bridge"
    /\ wallets' = <<w>>
    /\ started' = {w}
    /\ delayed' = [delayed EXCEPT ![w] = FALSE]
    /\ report' = NoReport
    /\ UNCHANGED <<reserve_file, file0, rows, users, auto_replace, max_failures, calls,
                   assigned, chain_vars, swap, tx_vars, http, sweep>>

\* process_bridge(user, delay=True): the startup sleep, after the balance check
BridgeDelay(w) ==
    /\ wk[w].op = "process_bridge" /\ wk[w].pc = "delay"
    /\ Step(w, [wk[w] EXCEPT !.pc = "select"], marks[w], last_net[w], retry_due[w],
            since_fail[w])
    /\ delayed' = [delayed EXCEPT ![w] = TRUE]
    /\ UNCHANGED <<reserve_file, file0, rows, users, auto_replace, max_failures, calls,
                   assigned, chain_vars, bridge, swap, specific_task, wallets, started,
                   report, tx_vars, http, sweep>>

\* process_bridge calls get_random_network_for_bridge(user)
BridgeSelect(w) == wk[w].pc = "select" /\ SelectNetwork(w)

\* one iteration of the for loop up to the request of bridge_to_plume:
\* client.wallet.balance(), Bridge(user, client), the quote request
BridgeQuote(w) ==
    LET l == wk[w] IN
    /\ l.op = "process_bridge" /\ l.pc = "attempt"
    /\ bridge' = [bridge EXCEPT ![w].last = "none"]
    /\ http' = [http EXCEPT ![w] = NoHttp]
    /\ \/ Step(w, Local("request", "bridge_to_plume", "read", 0, 1, NoProxy, NoRet,
                        l.user_proxy, "none"), 0, "none", "none", -1)
       \/ \* the balance read raises
          Step(w, BridgeStep(l, "except"), marks[w], last_net[w], retry_due[w],
               since_fail[w])
    /\ UNCHANGED <<reserve_file, file0, rows, users, auto_replace, max_failures, calls,
                   assigned, chain_vars, swap, batch_vars, tx_vars, sweep>>

\* the rest of bridge_to_plume and what process_bridge does with its result:
\* the quote is read, the balance is compared with the quoted value, the
\* transaction is sent by execute_transaction, which returns success=False for
\* whatever sign_and_send or wait_for_receipt raised
BridgeSubmit(w) ==
    LET l == wk[w]
        b == bridge[w]
    IN
    /\ l.op = "process_bridge" /\ l.pc = "submit"
    /\ http' = [http EXCEPT ![w] = NoHttp]
    /\ \/ \* `raise` for an empty body, data["steps"] raises for a body without
          \* steps, or the balance read raises
          /\ bridge' = [bridge EXCEPT ![w].last = "raised"]
          /\ Step(w, BridgeStep(l, "except"), marks[w], last_net[w], retry_due[w],
                  since_fail[w])
       \/ \* balance.Wei < bridge_value.Wei: bridge_to_plume returns False
          /\ http[w].data = "quote"
          /\ bridge' = [bridge EXCEPT ![w].last = "refused"]
          /\ Step(w, Returned(l, "True"), marks[w], last_net[w], retry_due[w],
                  since_fail[w])
       \/ \* the transaction is not sent, is reverted or gets no receipt in time
          /\ http[w].data = "quote"
          /\ bridge' = [bridge EXCEPT ![w] =
                          [b EXCEPT !.tx_log = Append(@, "failed"), !.last = "tx_failed"]]
          /\ Step(w, Returned(l, "True"), marks[w], last_net[w], retry_due[w],
                  since_fail[w])
       \/ \* the transaction is confirmed
          /\ http[w].data = "quote"
          /\ bridge' = [bridge EXCEPT ![w] =
                          [b EXCEPT !.tx_log = Append(@, "ok"), !.last = "tx_ok",
                                    !.pause = -1]]
          /\ Step(w, BridgeStep(l, "poll"), marks[w], last_net[w], retry_due[w],
                  since_fail[w])
    /\ UNCHANGED <<reserve_file, file0, rows, users, auto_replace, max_failures, calls,
                   assigned, chain_vars, swap, batch_vars, tx_vars, sweep>>

\* while True: check_plume_balance(user), after asyncio.sleep(5) from the
\* second poll on
Poll(w) ==
    LET l == wk[w] IN
    /\ l.op = "process_bridge" /\ l.pc = "poll"
    /\ bridge' = [bridge EXCEPT ![w].pause = IF @ < 0 THEN 0 ELSE PollInterval]
    /\ Step(w, Local("check_plume_balance", "arrival", "read", 0, 1, NoProxy, NoRet,
                     l.user_proxy, "none"), 0, "none", "none", -1)
    /\ UNCHANGED <<reserve_file, file0, rows, users, auto_replace, max_failures, calls,
                   assigned, chain_vars, swap, batch_vars, tx_vars, http, sweep>>

\* except Exception: the sleep, then `continue` or the end of the for loop
BridgeExcept(w) ==
    LET l == wk[w]
        b == bridge[w]
    IN
    /\ l.op = "process_bridge" /\ l.pc = "except"
    /\ http' = [http EXCEPT ![w] = NoHttp]
    /\ \E random_time_for_sleep \in BridgeBackoffs :
         /\ bridge' = [bridge EXCEPT ![w] =
                         [b EXCEPT !.slept = random_time_for_sleep,
                                   !.attempt = IF @ < max_failures THEN @ + 1 ELSE @]]
         /\ Step(w, IF b.attempt < max_failures THEN BridgeStep(l, "attempt")
                    ELSE Returned(l, "False"),
                 marks[w], last_net[w], retry_due[w], since_fail[w])
    /\ UNCHANGED <<reserve_file, file0, rows, users, auto_replace, max_failures, calls,
                   assigned, chain_vars, swap, batch_vars, tx_vars, sweep>>

\* the funds of a confirmed bridge transaction arrive on Plume
Credit(w) ==
    /\ \E i \in 1..Len(bridge[w].tx_log) : bridge[w].tx_log[i] = "ok"
    /\ plume[w] <= FundedThreshold
    /\ plume' = [plume EXCEPT ![w] = FundedThreshold + 1]
    /\ UNCHANGED <<reserve_file, file0, rows, users, auto_replace, max_failures, wk,
                   calls, assigned, marks, last_net, retry_due, since_fail, bridge_use,
                   chain_balance, bridge, swap, batch_vars, tx_vars, http, sweep>>

\* process_tasks after asyncio.gather(*tasks, return_exceptions=True)
Gather ==
    /\ started # {}
    /\ report.state = "none"
    /\ \A w \in started : wk[w].pc = "idle" /\ wk[w].result # "none"
    /\ report' = Tally([w \in started |-> wk[w].result])
    /\ UNCHANGED <<reserve_file, file0, rows, users, auto_replace, max_failures, wk,
                   calls, assigned, marks, last_net, retry_due, since_fail, chain_vars,
                   bridge, swap, specific_task, wallets, started, delayed, tx_vars, http, sweep>>

\* one source-chain record in the reserve file, Base funded or not
InitBridge ==
    /\ InitShared
    /\ reserve_file \in SeqsUpTo({Line("auth", 1)}, MaxPool)
    /\ rows = Wallets
    /\ auto_replace \in BOOLEAN
    /\ max_failures \in 1..MaxThreshold
    /\ plume \in {[w \in Wallets |-> IF w \in Workers THEN b ELSE 0] : b \in BalanceValues}
    /\ bridge_use = DefaultBridgeUse
    /\ chain_balance \in {[NoFunds EXCEPT !["Base"] = a] :
                              a \in {Amount(0, 0), Amount(FloorGwei, 1)}}

NextBridge ==
    \/ \E w \in Workers :
          \/ StartBridge(w)
          \/ BalanceRead(w)
          \/ Mark(w)
          \/ Acquire(w)
          \/ Persist(w)
          \/ Refetch(w)
          \/ BridgeDelay(w)
          \/ BridgeSelect(w)
          \/ BridgeQuote(w)
          \/ HttpAttempt(w)
          \/ BridgeSubmit(w)
          \/ Poll(w)
          \/ BridgeExcept(w)
          \/ Credit(w)
    \/ Gather

SpecBridge == InitBridge /\ [][NextBridge]_vars

\* the for loop of process_bridge alone: the wallet has nothing on Plume, its
\* balance check has returned False, its startup sleep is over and Base, the
\* one funded source chain, has been selected
InitQuote ==
    /\ reserve_file \in SeqsUpTo({Line("auth", 1)}, MaxPool)
    /\ file0 = reserve_file
    /\ rows = Wallets
    /\ InitNoTx
    /\ auto_replace \in BOOLEAN
    /\ max_failures \in 1..MaxThreshold
    /\ plume = [w \in Wallets |-> 0]
    /\ bridge_use = DefaultBridgeUse
    /\ chain_balance = [NoFunds EXCEPT !["Base"] = Amount(FloorGwei, 1)]
    /\ users = [w \in Wallets |-> User(w, ImportedProxy(w), "OK")]
    /\ wk = [w \in Wallets |->
                IF w \in Workers
                THEN Local("process_bridge", "none", "attempt", 0, 0, NoProxy, NoRet,
                           users[w].proxy, "none")
                ELSE IdleLocal]
    /\ bridge = [w \in Wallets |->
                    IF w \in Workers THEN BridgeLocal("Base", 1, 1, <<>>, -1, -1, "none")
                    ELSE NoBridge]
    /\ calls = [w \in Wallets |-> 0]
    /\ assigned = [w \in Wallets |-> NoProxy]
    /\ marks = [w \in Wallets |-> 0]
    /\ last_net = [w \in Wallets |-> "none"]
    /\ retry_due = [w \in Wallets |-> "none"]
    /\ since_fail = [w \in Wallets |-> -1]
    /\ swap = [w \in Wallets |-> NoSwap]
    /\ http = [w \in Wallets |-> NoHttp]
    /\ specific_task = "bridge"
    /\ wallets \in {<<w>> : w \in Workers}
    /\ started = Workers
    /\ delayed = [w \in Wallets |-> w \in Workers]
    /\ report = NoReport
    /\ sweep = NoSweep

NextQuote ==
    \E w \in Workers :
        \/ BridgeQuote(w)
        \/ HttpAttempt(w)
        \/ Mark(w)
        \/ Acquire(w)
        \/ Persist(w)
        \/ Refetch(w)
        \/ BridgeSubmit(w)
        \/ BridgeExcept(w)

SpecQuote == InitQuote /\ [][NextQuote]_vars

-----------------------------------------------------------------------------
(* functions/activity.py: process_tasks and main_process, every wallet with *)
(* its own task.  What process_bridge and process_swap do inside is above;  *)
(* here each of them is one step that ends with one of its outcomes.        *)

\* the arguments main.py passes to process_tasks, and the ones it compares with
Tasks == {"main", "register", "bridge", "swap", "swaps"}

\* how a call of process_bridge or of process_swap can end
Outcomes == {"True", "False", "raised"}

\* what main_process returns for the outcomes of its two calls: False when the
\* bridge result is falsy, True when the swap result is truthy, and None when
\* it reaches the end of its body
main_process(bridge_result, swaps) ==
    IF bridge_result = "raised" THEN "raised"
    ELSE IF bridge_result # "True" THEN "False"
    ELSE IF swaps = "raised" THEN "raised"
    ELSE IF swaps = "True" THEN "True"
    ELSE "None"

\* the rows of the store as the list get_all_wallets returns
all_wallets(present) ==
    CHOOSE s \in [1..Cardinality(present) -> present] :
        \A i, j \in DOMAIN s : i < j => s[i] < s[j]

\* s[a:b] for a, b >= 0
Slice(s, a, b) ==
    LET hi == Min(b, Len(s)) IN
    IF a >= hi THEN <<>> ELSE SubSeq(s, a + 1, hi)

\* the wallets process_tasks works on
SelectedWallets(s, wallet_start, wallet_end) ==
    IF wallet_end > 0 /\ wallet_end <= Len(s)
    THEN Slice(s, wallet_start, wallet_end)
    ELSE Slice(s, wallet_start, Len(s))

\* the coroutine process_tasks wraps in a task for each wallet
TaskFrame(task) ==
    IF task = "main"
    THEN Local("main_process", "none", "sleep", 0, 0, NoProxy, NoRet, NoProxy, "none")
    ELSE IF task = "bridge"
    THEN Local("process_bridge", "none", "call", 0, 0, NoProxy, NoRet, NoProxy, "none")
    ELSE IF task = "swaps"
    THEN Local("process_swap", "none", "call", 0, 0, NoProxy, NoRet, NoProxy, "none")
    ELSE IdleLocal

\* process_tasks returned without gathering anything
Logged(state) == [NoReport EXCEPT !.state = state]

\* process_tasks(specific_task) up to its asyncio.gather
ProcessTasks(task) ==
    /\ \A w \in Wallets : wk[w].pc = "idle"
    /\ started = {} \/ report.state # "none"
    /\ specific_task' = task
    /\ \/ \* get_all_wallets raises
          /\ started' = {}
          /\ wallets' = <<>>
          /\ report' = Logged("error_logged")
          /\ UNCHANGED wk
       \/ /\ rows = {}
          /\ started' = {}
          /\ wallets' = <<>>
          /\ report' = Logged("no_wallets")
          /\ UNCHANGED wk
       \/ /\ rows # {}
          /\ \E wallet_start \in 0..Cardinality(Wallets), wallet_end \in 0..Cardinality(Wallets) :
               LET selected == SelectedWallets(all_wallets(rows), wallet_start, wallet_end)
                   tasks == IF task \in {"main", "bridge", "swaps"} THEN Range(selected) ELSE {}
               IN
               /\ wallets' = selected
               /\ started' = tasks
               /\ report' = IF tasks = {} THEN Logged("no_tasks") ELSE NoReport
               /\ wk' = [w \in Wallets |-> IF w \in tasks THEN TaskFrame(task) ELSE IdleLocal]
    /\ delayed' = [w \in Wallets |-> FALSE]
    /\ UNCHANGED <<reserve_file, file0, rows, users, auto_replace, max_failures, calls,
                   assigned, marks, last_net, retry_due, since_fail, chain_vars, bridge,
                   swap, tx_vars, http, sweep>>

\* task w moves to frame n
TaskStep(w, n) ==
    /\ wk' = [wk EXCEPT ![w] = n]
    /\ UNCHANGED <<reserve_file, file0, rows, users, auto_replace, max_failures, calls,
                   assigned, marks, last_net, retry_due, since_fail, chain_vars, bridge,
                   swap, specific_task, wallets, started, report, tx_vars, http, sweep>>

\* main_process: the startup sleep
StartupSleep(w) ==
    /\ wk[w].op = "main_process" /\ wk[w].pc = "sleep"
    /\ TaskStep(w, [wk[w] EXCEPT !.pc = "bridge"])
    /\ delayed' = [delayed EXCEPT ![w] = TRUE]

\* a task created with delay=True ends before its startup sleep (its balance
\* check returned or raised) or after it
TaskEnds(w, value) ==
    /\ TaskStep(w, Returned(wk[w], value))
    /\ \E slept \in BOOLEAN : delayed' = [delayed EXCEPT ![w] = slept]

\* process_bridge as a task, or called by main_process
WorkerBridge(w) ==
    LET l == wk[w] IN
    \E outcome \in Outcomes :
        \/ /\ l.op = "process_bridge" /\ l.pc = "call"
           /\ TaskEnds(w, outcome)
        \/ /\ l.op = "main_process" /\ l.pc = "bridge"
           /\ TaskStep(w, IF outcome = "True" THEN [l EXCEPT !.pc = "swaps"]
                          ELSE Returned(l, main_process(outcome, "none")))
           /\ UNCHANGED delayed

\* process_swap as a task, or called by main_process
WorkerSwap(w) ==
    LET l == wk[w] IN
    \E outcome \in Outcomes :
        \/ /\ l.op = "process_swap" /\ l.pc = "call"
           /\ TaskEnds(w, outcome)
        \/ /\ l.op = "main_process" /\ l.pc = "swaps"
           /\ TaskStep(w, Returned(l, main_process("True", outcome)))
           /\ UNCHANGED delayed

\* the store holds any of the wallets, or none
InitBatch ==
    /\ InitTasks
    /\ InitNoTx
    /\ reserve_file = <<>>
    /\ file0 = reserve_file
    /\ rows \in SUBSET Wallets
    /\ auto_replace = TRUE
    /\ max_failures = HardThreshold
    /\ plume = [w \in Wallets |-> 0]
    /\ bridge_use = DefaultBridgeUse
    /\ chain_balance = NoFunds

NextBatch ==
    \/ \E task \in Tasks : ProcessTasks(task)
    \/ \E w \in Wallets :
          \/ StartupSleep(w)
          \/ WorkerBridge(w)
          \/ WorkerSwap(w)
    \/ Gather

SpecBatch == InitBatch /\ [][NextBatch]_vars

-----------------------------------------------------------------------------
(* libs/eth_async/transactions.py: Transactions.sign_and_send and the       *)
(* methods of a Tx object, for one account and one transaction              *)

\* the highest block number considered
MaxHead == 4

\* the longest timeout of wait_for_confirmations, in poll intervals
MaxTimeout == 2

\* the most confirmations asked for
MaxConfirmations == 3

\* the most send_raw_transaction calls considered
MaxSent == 1

\* client.account.address, and some other address
Account == "account"
Contract == "contract"

\* w3.eth.gas_price, w3.eth.estimate_gas, and the limit used when the
\* estimation fails
GasPrice == 7
EstimatedGas == 21000
DefaultGas == 250000

\* int(x * 1.1), int(x * 1.2): percent is 110 or 120
Scaled(x, percent) == (x * percent) \div 100

\* what w3.eth.estimate_gas answers: a value, or an error whose text
\* has 'revert' in it, or another error
Estimates == {"ok", "execution reverted", "insufficient funds"}

\* what w3.eth.send_raw_transaction answers: a hash, or an error
Sends == {"ok", "insufficient funds", "nonce too low"}

\* Transactions.auto_add_params(tx_params) when it does not raise: count is
\* what wallet.nonce() returns, estimate what the gas estimation answers
auto_add_params(p, count, estimate) ==
    [p EXCEPT !.nonce = IF @ <= 0 THEN count ELSE @,
              !.gasPrice = IF @ <= 0 THEN GasPrice ELSE @,
              !.gas = IF @ > 0 THEN @
                      ELSE IF estimate = "ok" THEN Scaled(EstimatedGas, 110)
                      ELSE DefaultGas]

\* Transactions.sign_and_send(tx_params): the error raised ("none": returned),
\* the Tx returned, the params as auto_add_params left them, and the
\* send_raw_transaction call made, if any
sign_and_send(p, count, estimate, send) ==
    LET q == auto_add_params(p, count, estimate)
        asked == IF p.gas > 0 THEN "skipped" ELSE estimate
        sent == <<[params |-> q, estimate |-> asked, accepted |-> send = "ok"]>>
    IN
    IF asked = "execution reverted"
    THEN [error |-> "execution reverted", tx |-> NoTx, params |-> [q EXCEPT !.gas = p.gas],
          sent |-> <<>>]
    ELSE IF send # "ok"
    THEN [error |-> send, tx |-> NoTx, params |-> q, sent |-> sent]
    ELSE [error |-> "none", tx |-> Tx(Hash(q), q), params |-> q, sent |-> sent]

\* no library call is running
Idle == call.pc = "idle"

\* a library call begins
NewCall(op) == [NoCall EXCEPT !.op = op, !.before = tx, !.polled = call.polled]

\* the receipt the node returns for the transaction
MinedReceipt == Receipt(ledger.block, ledger.status, -1)

\* the variables of the workers and of the pool
task_vars == <<reserve_file, file0, rows, users, auto_replace, max_failures, wk, calls,
               assigned, marks, last_net, retry_due, since_fail, chain_vars, bridge,
               swap, batch_vars, http, sweep>>

\* Tx.wait_for_receipt(client): w3.eth.wait_for_transaction_receipt returns the
\* receipt or raises TimeExhausted; without a hash nothing is waited for
WaitForReceipt ==
    /\ Idle /\ tx # NoTx
    /\ \/ /\ tx.hash = NoHash
          /\ call' = [NewCall("wait_for_receipt") EXCEPT !.outcome = "None"]
          /\ UNCHANGED tx
       \/ /\ tx.hash # NoHash /\ ledger.block > 0
          /\ call' = [NewCall("wait_for_receipt") EXCEPT !.outcome = "receipt",
                                                        !.polled = TRUE]
          /\ tx' = [tx EXCEPT !.receipt = MinedReceipt]
       \/ /\ tx.hash # NoHash
          /\ call' = [NewCall("wait_for_receipt") EXCEPT !.outcome = "TimeExhausted"]
          /\ UNCHANGED tx
    /\ UNCHANGED <<replacement, ledger, broadcast, task_vars>>

\* Tx.wait_for_confirmations(client, confirmations, timeout) is called
StartConfirmations ==
    /\ Idle /\ tx # NoTx
    /\ \E confirmations \in 1..MaxConfirmations, timeout \in 0..MaxTimeout :
          call' = [NewCall("wait_for_confirmations") EXCEPT
                      !.pc = "loop", !.confirmations = confirmations,
                      !.timeout = timeout]
    /\ UNCHANGED <<tx, replacement, ledger, broadcast, task_vars>>

\* one iteration of its while loop: the receipt lookup, the head read, the
\* comparison, the sleep
PollConfirmations ==
    /\ call.op = "wait_for_confirmations" /\ call.pc = "loop"
    /\ call.elapsed < call.timeout
    /\ \/ \* get_transaction_receipt raises: not mined yet, no hash, no answer
          /\ call' = [call EXCEPT !.elapsed = @ + 1]
          /\ UNCHANGED tx
       \/ \* the receipt is there and the head read raises
          /\ tx.hash # NoHash /\ ledger.block > 0
          /\ call' = [call EXCEPT !.receipt = MinedReceipt, !.elapsed = @ + 1]
          /\ UNCHANGED tx
       \/ /\ tx.hash # NoHash /\ ledger.block > 0
          /\ LET conf == ledger.head - ledger.block + 1
                 receipt == [MinedReceipt EXCEPT !.confirmations = conf]
             IN
             IF conf >= call.confirmations
             THEN /\ tx' = [tx EXCEPT !.receipt = receipt]
                  /\ call' = [call EXCEPT !.receipt = receipt, !.pc = "idle",
                                          !.outcome = "receipt", !.polled = TRUE]
             ELSE /\ call' = [call EXCEPT !.receipt = MinedReceipt, !.elapsed = @ + 1]
                  /\ UNCHANGED tx
    /\ UNCHANGED <<replacement, ledger, broadcast, task_vars>>

\* the loop ends by timeout: the lines after the loop
EndConfirmations ==
    /\ call.op = "wait_for_confirmations" /\ call.pc = "loop"
    /\ call.elapsed >= call.timeout
    /\ \/ \* a receipt was seen and the head read raises
          /\ call.receipt # NoReceipt
          /\ call' = [call EXCEPT !.pc = "idle", !.outcome = "raised"]
          /\ UNCHANGED tx
       \/ LET conf == ledger.head - call.receipt.blockNumber + 1
              receipt == [call.receipt EXCEPT !.confirmations = conf]
          IN
          /\ tx' = IF call.receipt # NoReceipt THEN [tx EXCEPT !.receipt = receipt] ELSE tx
          /\ call' = [call EXCEPT
                        !.pc = "idle",
                        !.receipt = IF @ # NoReceipt THEN receipt ELSE @,
                        !.outcome = IF tx.hash # NoHash THEN "TransactionNotConfirmed"
                                    ELSE "None"]
    /\ UNCHANGED <<replacement, ledger, broadcast, task_vars>>

\* Tx.parse_params(client), when get_transaction answers
parse_params == ledger.tx_data

\* Tx.cancel(client, gas_price_multiplier = 1.1)
Cancel ==
    /\ Idle /\ tx # NoTx
    /\ Len(broadcast) < MaxSent
    /\ \/ \* parse_params raises: no hash, or get_transaction fails
          /\ tx.params = NoParams
          /\ call' = [NewCall("cancel") EXCEPT !.outcome = "raised"]
          /\ UNCHANGED <<tx, replacement, broadcast>>
       \/ /\ tx.params = NoParams => tx.hash # NoHash
          /\ LET params == IF tx.params = NoParams THEN parse_params ELSE tx.params
                 cancel_params ==
                     Params(params.nonce, Account, 0, "0x",
                            IF params.gasPrice >= 0 THEN Scaled(params.gasPrice, 110)
                            ELSE -1,
                            EstimatedGas)
             IN
             /\ tx' = [tx EXCEPT !.params = params]
             /\ \/ \* w3.eth.estimate_gas raises
                   /\ call' = [NewCall("cancel") EXCEPT !.outcome = "raised"]
                   /\ UNCHANGED <<replacement, broadcast>>
                \/ \E send \in Sends :
                      LET r == sign_and_send(cancel_params, ledger.count, "ok", send) IN
                      /\ broadcast' = broadcast \o r.sent
                      /\ replacement' = IF r.error = "none" THEN r.tx ELSE replacement
                      /\ call' = [NewCall("cancel") EXCEPT
                                    !.outcome = IF r.error = "none" THEN "returned"
                                                ELSE "raised"]
    /\ UNCHANGED <<ledger, task_vars>>

\* Tx.speed_up(client, gas_price_multiplier = 1.2)
SpeedUp ==
    /\ Idle /\ tx # NoTx
    /\ Len(broadcast) < MaxSent
    /\ \/ /\ tx.params = NoParams
          /\ call' = [NewCall("speed_up") EXCEPT !.outcome = "raised"]
          /\ UNCHANGED <<tx, replacement, broadcast>>
       \/ /\ tx.params = NoParams => tx.hash # NoHash
          /\ LET params == IF tx.params = NoParams THEN parse_params ELSE tx.params
                 speed_up_params ==
                     [params EXCEPT !.gasPrice = IF @ >= 0 THEN Scaled(@, 120) ELSE @]
             IN
             /\ tx' = [tx EXCEPT !.params = params]
             /\ \E send \in Sends :
                   \* the copy has the original's gas: nothing is estimated
                   LET r == sign_and_send(speed_up_params, ledger.count, "ok", send) IN
                   /\ broadcast' = broadcast \o r.sent
                   /\ replacement' = IF r.error = "none" THEN r.tx ELSE replacement
                   /\ call' = [NewCall("speed_up") EXCEPT
                                 !.outcome = IF r.error = "none" THEN "returned"
                                             ELSE "raised"]
    /\ UNCHANGED <<ledger, task_vars>>

\* the chain grows by a block
NewBlock ==
    /\ ledger.head < MaxHead
    /\ ledger' = [ledger EXCEPT !.head = @ + 1]
    /\ UNCHANGED <<tx, replacement, call, broadcast, task_vars>>

\* the transaction is mined in the next block, with status 1 or 0
Mine ==
    /\ tx.hash # NoHash /\ ledger.block = 0
    /\ ledger.head < MaxHead
    /\ \E status \in {0, 1} :
          ledger' = [ledger EXCEPT !.head = @ + 1, !.block = ledger.head + 1,
                                   !.status = status, !.count = @ + 1]
    /\ UNCHANGED <<tx, replacement, call, broadcast, task_vars>>

\* no worker runs
InitQuiet ==
    /\ InitTasks
    /\ reserve_file = <<>>
    /\ file0 = reserve_file
    /\ rows = Wallets
    /\ auto_replace = TRUE
    /\ max_failures = HardThreshold
    /\ plume = [w \in Wallets |-> 0]
    /\ bridge_use = DefaultBridgeUse
    /\ chain_balance = NoFunds

\* the transactions considered: a contract call with nonce 0 or 1
Originals ==
    {Params(nonce, Contract, 5, "0xd0e30db0", 10, Scaled(EstimatedGas, 110)) :
        nonce \in {0, 1}}

\* a Tx as sign_and_send returns it, or built from its hash, or from its
\* params alone; the transaction is pending
InitTx ==
    /\ InitQuiet
    /\ \E p \in Originals :
          /\ tx \in {Tx(Hash(p), p), Tx(Hash(p), NoParams), Tx(NoHash, p)}
          /\ ledger = Ledger(1, p.nonce, 0, -1, IF tx.hash = NoHash THEN NoParams ELSE p)
    /\ replacement = NoTx
    /\ call = NoCall
    /\ broadcast = <<>>

NextTx ==
    \/ WaitForReceipt
    \/ StartConfirmations
    \/ PollConfirmations
    \/ EndConfirmations
    \/ Cancel
    \/ SpeedUp
    \/ NewBlock
    \/ Mine

SpecTx == InitTx /\ [][NextTx]_vars

-----------------------------------------------------------------------------
(* Base.execute_transaction: submit, wait for the receipt, retry            *)

MaxRetry == 1

\* the message of web3's TimeExhausted
TimeExhausted == "is not in the chain after 180 seconds"

\* what tx.wait_for_receipt answers: a receipt with its status, or TimeExhausted
Waits == {"status 1", "status 0", TimeExhausted}

\* `if receipt and tx.params:` followed by `if status == 0: raise`
Confirmed_AnyReceipt(receipt, params) == receipt # NoReceipt /\ params # NoParams

Confirmed(receipt, params) ==
    receipt # NoReceipt /\ params # NoParams /\ receipt.status # 0

\* `"insufficient funds" in str(e).lower()`: it makes no sense to retry
Terminal_Never(e) == FALSE

Terminal(e) == e = "insufficient funds"

\* the except branch of an attempt that raised e: break, or sleep and count,
\* or count; then the loop condition, and the failed result after the loop
Except(c, e) ==
    LET failed == [NoResult EXCEPT !.error_message = e] IN
    IF Terminal(e)
    THEN [c EXCEPT !.errors = Append(@, e), !.sleeps = Append(@, 0),
                   !.pc = "done", !.result = failed]
    ELSE IF c.attempt < c.retry_count
    THEN [c EXCEPT !.errors = Append(@, e), !.sleeps = Append(@, 5 * (c.attempt + 1)),
                   !.pc = "sleep"]
    ELSE [c EXCEPT !.errors = Append(@, e), !.sleeps = Append(@, 0),
                   !.attempt = @ + 1, !.pc = "done", !.result = failed]

\* execute_transaction(tx_params, retry_count=retry_count) is called: the
\* callers build tx_params without nonce and without gas
ExecuteTransaction ==
    /\ Idle
    /\ \E retry_count \in 0..MaxRetry, value \in {0, 5}, gas \in {0, 60000} :
          call' = [NoCall EXCEPT !.op = "execute_transaction", !.pc = "submit",
                                 !.retry_count = retry_count,
                                 !.tx_params = Params(0, Contract, value, "0xd0e30db0",
                                                      0, gas)]
    /\ UNCHANGED <<tx, replacement, ledger, broadcast, task_vars>>

\* one pass of the loop up to the end of sign_and_send
ExecSubmit ==
    /\ call.op = "execute_transaction" /\ call.pc = "submit"
    /\ call.attempt <= call.retry_count
    /\ \E estimate \in Estimates, send \in Sends :
          LET r == sign_and_send(call.tx_params, ledger.count, estimate, send)
              c == [call EXCEPT !.tx_params = r.params, !.submitted = @ + 1]
          IN
          /\ broadcast' = broadcast \o r.sent
          /\ IF r.error = "none"
             THEN /\ tx' = r.tx
                  /\ call' = [c EXCEPT !.pc = "wait"]
             ELSE /\ call' = Except([c EXCEPT !.waits = Append(@, "not sent")], r.error)
                  /\ UNCHANGED tx
    /\ UNCHANGED <<replacement, ledger, task_vars>>

\* tx.wait_for_receipt returns or raises, and the rest of the pass
ExecWait ==
    /\ call.op = "execute_transaction" /\ call.pc = "wait"
    /\ \E wait \in Waits :
          LET c == [call EXCEPT !.waits = Append(@, wait)] IN
          IF wait = TimeExhausted
          THEN /\ call' = Except(c, TimeExhausted)
               /\ UNCHANGED <<tx, ledger>>
          ELSE LET receipt == Receipt(ledger.head + 1, IF wait = "status 1" THEN 1 ELSE 0,
                                      -1)
               IN
               /\ ledger.head < MaxHead
               /\ ledger' = [ledger EXCEPT !.head = @ + 1, !.block = ledger.head + 1,
                                           !.status = receipt.status, !.count = @ + 1,
                                           !.tx_data = tx.params]
               /\ tx' = [tx EXCEPT !.receipt = receipt]
               /\ call' = IF Confirmed(receipt, tx.params)
                          THEN [c EXCEPT !.pc = "done",
                                         !.result = [success |-> TRUE,
                                                     error_message |-> "none",
                                                     receipt |-> receipt]]
                          ELSE IF receipt.status = 0
                          THEN Except(c, "Transaction reverted")
                          ELSE Except(c, "Transaction receipt timeout")
    /\ UNCHANGED <<replacement, broadcast, task_vars>>

\* the backoff sleep is over: the next attempt
ExecSleep ==
    /\ call.op = "execute_transaction" /\ call.pc = "sleep"
    /\ call' = [call EXCEPT !.attempt = @ + 1, !.pc = "submit"]
    /\ UNCHANGED <<tx, replacement, ledger, broadcast, task_vars>>

\* the caller has the TransactionResult; the next call may begin
ExecReturn ==
    /\ call.op = "execute_transaction" /\ call.pc = "done"
    /\ call' = NoCall
    /\ tx' = NoTx
    /\ broadcast' = <<>>
    /\ UNCHANGED <<replacement, ledger, task_vars>>

\* nothing sent yet, the account has sent `count` transactions
InitExecute ==
    /\ InitQuiet
    /\ tx = NoTx
    /\ replacement = NoTx
    /\ call = NoCall
    /\ broadcast = <<>>
    /\ \E count \in {0, 1} : ledger = Ledger(1, count, 0, -1, NoParams)

NextExecute ==
    \/ ExecuteTransaction
    \/ ExecSubmit
    \/ ExecWait
    \/ ExecSleep
    \/ ExecReturn

SpecExecute == InitExecute /\ [][NextExecute]_vars

-----------------------------------------------------------------------------
(* The reserve pool and the store: claims about concurrent callers of       *)
(* ResourceManager, under Spec                                              *)

\* the records in the pool: what _load_from_file gives
Pool(file) == load_from_file(file)

\* the callers that have called replace_proxy exactly once
OneCallers == {w \in Wallets : calls[w] = 1}

\* as many callers as the pool held records have each made one acquisition,
\* and nobody made a second one
EachOfKCalledOnce ==
    /\ \A w \in Wallets : calls[w] <= 1
    /\ Cardinality(OneCallers) = Len(Pool(file0))

\* C1: when the pool holds K records and K callers each make one acquisition,
\* in any interleaving, they receive K pairwise distinct records and the pool
\* is empty afterwards, and an acquisition made after that returns None; for
\* every content of the file and every outcome of the write-back.
C1_DistinctAndDrained ==
    /\ [](EachOfKCalledOnce =>
            /\ \A w \in OneCallers : wk[w].new_proxy # NoProxy
            /\ \A v, w \in OneCallers : v # w => wk[v].new_proxy # wk[w].new_proxy
            /\ Pool(reserve_file) = <<>>)
    /\ [][\A w \in Wallets :
            (EachOfKCalledOnce /\ wk[w].pc = "idle" /\ wk'[w].pc = "persist") => FALSE]_vars

\* C2: no record is at the same time stored for a wallet by a replacement and
\* still in the reserve pool.
C2_NoDoubleIssue ==
    \A w \in Wallets :
        assigned[w] # NoProxy => assigned[w] \notin Range(Pool(reserve_file))

\* C3: with an empty pool, replace_proxy returns (False, "No available reserve
\* proxies"), updates nothing in the store and leaves the wallet's proxy as it was.
C3_EmptyPoolRefuses ==
    [][\A w \in Wallets :
         (/\ wk[w].pc = "idle"
          /\ Pool(reserve_file) = <<>>
          /\ (wk'[w] # wk[w] \/ calls'[w] # calls[w]))
         => /\ wk'[w].pc = "idle"
            /\ wk'[w].ret.ok = FALSE
            /\ wk'[w].ret.message = "No available reserve proxies"
            /\ users' = users]_vars

\* a state after such a call: the pool is empty and the call has returned
C3_Witness ==
    \E w \in Wallets :
        /\ calls[w] >= 1
        /\ wk[w].pc = "idle"
        /\ wk[w].ret.message = "No available reserve proxies"
        /\ Pool(reserve_file) = <<>>
        /\ users[w] = User(w, ImportedProxy(w), "OK")

\* C4: when replace_proxy acquired a record and storing it fails, it returns
\* ok=False, the record is not put back (the pool is exactly one record
\* smaller than before the call) and the wallet's row is unchanged.
C4_LostOnStoreFailure ==
    [][\A w \in Wallets :
         /\ (wk[w].pc = "idle" /\ wk'[w].pc = "persist")
               => Len(Pool(reserve_file')) = Len(Pool(reserve_file)) - 1
         /\ (/\ wk[w].pc = "persist" /\ wk'[w].pc = "idle"
             /\ users'[w] # User(w, parse_proxy(wk[w].new_proxy), "OK"))
               => /\ wk'[w].ret.ok = FALSE
                  /\ reserve_file' = reserve_file
                  /\ users' = users]_vars

\* C7: a BAD status stays BAD until a replacement for that wallet succeeds; a
\* failed replacement leaves the row as it was; a successful one stores the
\* new proxy and status OK together.
C7_BadIsSticky ==
    [][\A w \in Wallets :
         /\ (users[w].proxy_status = "BAD" /\ users'[w].proxy_status # "BAD")
               => (wk[w].pc = "persist" /\ wk'[w].ret.ok)
         /\ (wk[w].pc = "persist" /\ wk'[w].pc = "idle" /\ wk'[w].ret.ok)
               => users'[w] = User(w, parse_proxy(wk[w].new_proxy), "OK")
         /\ (wk[w].pc = "persist" /\ wk'[w].pc = "idle" /\ ~wk'[w].ret.ok)
               => users'[w] = users[w]
         /\ (wk[w].pc = "idle" /\ wk'[w].pc = "idle" /\ users[w].proxy_status = "BAD")
               => users'[w] = users[w]]_vars

\* one wallet left BAD by a failed replacement, another one replaced
C7_Witness ==
    \E v, w \in Wallets :
        /\ users[v].proxy_status = "BAD"
        /\ wk[v].pc = "idle"
        /\ wk[v].ret.message = "Failed to replace the proxy"
        /\ wk[w].ret.ok
        /\ assigned[w] # NoProxy
        /\ users[w] = User(w, parse_proxy(assigned[w]), "OK")

-----------------------------------------------------------------------------
(* The retry loops: claims about one worker, under SpecWorkflow *)

InLoop(w) == wk[w].op # "none"

\* C5: within one retry loop the wallet is marked BAD exactly once, when the
\* consecutive-failure counter reaches resources.max_failures: not before,
\* and not again for failures beyond it.
C5_MarkedOnceAtThreshold ==
    \A w \in Workers :
        /\ wk[w].pc = "mark" => (wk[w].proxy_errors = max_failures /\ marks[w] = 0)
        /\ (InLoop(w) /\ wk[w].proxy_errors >= max_failures)
              => (wk[w].pc = "mark" \/ marks[w] >= 1)
        /\ marks[w] <= 1

\* C6: every successful network call of a loop resets its failure counter to 0.
C6_SuccessResetsCounter ==
    \A w \in Workers :
        (InLoop(w) /\ last_net[w] = "ok") => wk[w].proxy_errors = 0

\* C8: a replacement is attempted on reaching the failure threshold if and
\* only if auto-replace is enabled.  Disabled: the reserve file and every
\* wallet's proxy stay as they were and replace_proxy is never called, and a
\* mark that the store accepts sets BAD.  Enabled: a task whose counter has
\* reached resources.max_failures is at, or has made, a replace_proxy call.
C8_ReplaceIffAutoReplace ==
    /\ ~auto_replace =>
            /\ reserve_file = file0
            /\ \A w \in Wallets : users[w].proxy = ImportedProxy(w) /\ calls[w] = 0
            /\ \A w \in Workers : wk[w].pc \notin {"acquire", "persist", "refetch"}
    /\ auto_replace =>
            \A w \in Workers :
                (InLoop(w) /\ wk[w].proxy_errors >= max_failures)
                    => (wk[w].pc \in {"mark", "acquire", "persist"} \/ calls[w] >= 1)

\* C9: after a successful replacement inside a loop the worker reads the
\* wallet again from the store and then repeats the same network call: it
\* neither leaves the loop nor goes on to another step.
C9_RefetchThenRetry ==
    \A w \in Workers :
        /\ retry_due[w] = "replaced" => wk[w].pc = "refetch"
        /\ retry_due[w] = "refetched" => (InLoop(w) /\ wk[w].pc = "read")

\* C10: after replace_proxy returned ok=False, at least 120 time units pass
\* before the task calls replace_proxy again.
C10_CooldownBeforeNextReplace ==
    \A w \in Workers :
        wk[w].pc = "acquire" => (since_fail[w] < 0 \/ since_fail[w] >= ReplaceCooldown)

-----------------------------------------------------------------------------
(* Source-network selection: claims under SpecSelect *)

\* the chains that are enabled and hold at least 0.0008
ClearFloor == {c \in Chains : bridge_use[c] /\ chain_balance[c].gwei >= FloorGwei}

\* C12: get_random_network_for_bridge returns only chains that are enabled
\* and hold at least 0.0008, and when exactly one chain is enabled and holds
\* at least 0.0008, every call that returns returns that chain.
C12_SelectsEligibleChain ==
    \A w \in Workers :
        LET network == bridge[w].network IN
        /\ network \in Chains => network \in ClearFloor
        /\ (network # "none" /\ Cardinality(ClearFloor) = 1) => network \in ClearFloor

-----------------------------------------------------------------------------
(* process_bridge: claims about one worker, under SpecBridge *)

\* the wallet was funded on Plume when the current process_bridge call began:
\* the balance only rises, and only after a confirmed transaction of the call
FundedAtStart(w) ==
    /\ w \in started
    /\ plume[w] > FundedThreshold
    /\ \A i \in 1..Len(bridge[w].tx_log) : bridge[w].tx_log[i] # "ok"

\* the task of wallet w has ended
Ended(w) == w \in started /\ wk[w].pc = "idle" /\ wk[w].result # "none"

\* C11: for a wallet whose Plume balance already exceeds 5, process_bridge
\* selects no source network, submits no transaction and returns True, in
\* every call and whichever of its balance reads fail.
C11_FundedBridgeIsNoOp ==
    \A w \in Workers :
        FundedAtStart(w)
            => /\ bridge[w].selections = 0
               /\ bridge[w].tx_log = <<>>
               /\ wk[w].op \in {"none", "check_plume_balance"}
               /\ Ended(w) => wk[w].result = "True"

\* C13: when the wallet is not funded on Plume and no enabled source chain
\* holds 0.0008, process_bridge raises as soon as the selection is over: no
\* transaction, no backoff sleep, no new attempt; and process_tasks counts
\* the wallet as a failure.
C13_NoFundsFailsAtOnce ==
    /\ [][\A w \in Workers :
            (/\ wk[w].op = "process_bridge" /\ wk[w].pc = "select"
             /\ ClearFloor = {}
             /\ wk'[w] # wk[w])
            => /\ wk'[w].pc = "idle" /\ wk'[w].result = "raised"
               /\ bridge'[w].tx_log = <<>>
               /\ bridge'[w].attempt = 0
               /\ bridge'[w].slept = -1]_vars
    /\ [](report.state = "counted"
            => /\ report.error_count =
                    Cardinality({w \in started : wk[w].result \in {"raised", "False"}})
               /\ \A w \in Workers :
                    (w \in started /\ wk[w].result = "raised") => report.error_count >= 1)

\* a counted batch whose worker found no source chain and raised
C13_Witness ==
    \E w \in Workers :
        /\ Ended(w)
        /\ bridge[w].network = "False"
        /\ ClearFloor = {}
        /\ wk[w].result = "raised"
        /\ bridge[w].tx_log = <<>>
        /\ report.state = "counted"
        /\ report.error_count = 1 /\ report.success_count = 0

\* C14: a failed bridge submission or confirmation is followed by a backoff
\* sleep of 0 to 30 and a new attempt, which selects the source network
\* again; there are at most max_failures attempts, and after the last one the
\* step ends as failed.
C14_BackoffAndReselect ==
    \A w \in Workers :
        LET b == bridge[w] IN
        /\ b.attempt <= max_failures
        /\ Len(b.tx_log) <= max_failures
        /\ b.slept \in {-1} \cup 0..30
        /\ b.last = "tx_failed"
              => \/ wk[w].op = "process_bridge" /\ wk[w].pc \in {"except", "attempt"}
                 \/ Ended(w) /\ wk[w].result = "False" /\ b.attempt = max_failures
        /\ b.attempt >= 2 => b.selections >= 2

\* C15: with max_failures = 3, a call whose first submissions fail goes on to
\* the next submission, and once its log is failed, failed, confirmed it
\* ends with success.
C15_TwoFailuresThenSuccess ==
    \A w \in Workers :
        max_failures = HardThreshold
            => /\ bridge[w].tx_log \in {<<"failed">>, <<"failed", "failed">>}
                    => ~Ended(w)
               /\ (bridge[w].tx_log = <<"failed", "failed", "ok">> /\ Ended(w))
                    => wk[w].result = "True"

\* C16: once the bridge transaction is confirmed, process_bridge polls the
\* Plume balance, pausing 5 between polls, and leaves the polling only by
\* returning True after a poll that found the balance above 5.
C16_LeavesArrivalOnlyWhenFunded ==
    \A w \in Workers :
        bridge[w].last = "tx_ok"
            => /\ bridge[w].pause \in {-1, 0, PollInterval}
               /\ \/ wk[w].op = "process_bridge" /\ wk[w].pc = "poll"
                  \/ wk[w].op = "check_plume_balance" /\ wk[w].caller = "arrival"
                  \/ Ended(w) /\ wk[w].result = "True" /\ plume[w] > FundedThreshold

-----------------------------------------------------------------------------
(* process_swap: claims about one worker, under SpecSwap *)

\* the iteration of process_swap whose nonce read returned a value below 400
BelowTarget(w) ==
    /\ swap[w].read = "ok"
    /\ swap[w].nonce < NonceTarget

\* process_swap is about to read the nonce again, after one swap and one
\* sleep of the configured range
NextIteration(w) ==
    /\ wk[w].op = "process_swap" /\ wk[w].pc = "read"
    /\ swap[w].swaps = 1
    /\ swap[w].random_sleep \in 0..30

C18_RetriesBounded ==
    \A w \in Workers :
        (/\ wk[w].op = "process_swap" /\ wk[w].pc = "read"
         /\ ~swap[w].some_ok)
        => wk[w].proxy_errors < max_failures

-----------------------------------------------------------------------------
(* process_tasks: claims about a batch of workers, under SpecBatch *)

\* C19: when process_tasks has counted, success_count + error_count is the
\* number of workers it started.
C19_EveryWorkerCounted ==
    report.state = "counted"
        => report.success_count + report.error_count = Cardinality(started)

\* C20: process_tasks never ends with an exception: an exception raised
\* inside a worker becomes that worker's result, leaves the other workers and
\* the batch as they are, and is counted in error_count once every worker
\* has ended; any other error is logged.
C20_NoExceptionEscapes ==
    /\ [][\A w \in Wallets :
            (wk[w].result # "raised" /\ wk'[w].result = "raised")
            => /\ \A v \in Wallets \ {w} : wk'[v] = wk[v]
               /\ report' = report /\ started' = started]_vars
    /\ [](report.state \in {"none", "counted", "no_wallets", "no_tasks", "error_logged"})
    /\ [](report.state = "counted"
            => /\ \A w \in started : wk[w].pc = "idle" /\ wk[w].result # "none"
               /\ report.error_count >=
                    Cardinality({w \in started : wk[w].result = "raised"})
               /\ report.success_count =
                    Cardinality({w \in started : wk[w].result = "True"}))

\* a counted batch of two workers: one raised, the other returned True
C20_Witness ==
    /\ report.state = "counted"
    /\ \E w, v \in started :
          /\ wk[w].result = "raised"
          /\ wk[v].result = "True"
    /\ report.error_count = 1
    /\ report.success_count = 1

\* the coroutine main.py's menu asks for with the argument task
Requested(task) ==
    IF task = "main" THEN "main_process"
    ELSE IF task = "bridge" THEN "process_bridge"
    ELSE IF task = "swap" THEN "process_swap"
    ELSE "none"

\* C21: for the full workflow, bridge-only and swap-only as main.py requests
\* them ("main", "bridge", "swap"), process_tasks creates one task for each
\* selected wallet and for no other, and the task runs the requested
\* function only.
C21_OneWorkerPerSelectedWallet ==
    (specific_task \in {"main", "bridge", "swap"}
        /\ report.state \notin {"error_logged", "no_wallets"})
    => /\ started = Range(wallets)
       /\ Len(wallets) = Cardinality(Range(wallets))
       /\ \A w \in Wallets :
            wk[w].op \in IF w \in started THEN {"none", Requested(specific_task)}
                         ELSE {"none"}

\* C22: no network call of a worker precedes the end of its startup sleep:
\* a task that has read a balance or a nonce, sent an HTTP request or reached
\* the selection of a source network has slept first.
C22_DelayBeforeFirstCall ==
    \A w \in started :
        (\/ last_net[w] # "none"
         \/ wk[w].op = "process_bridge" /\ wk[w].pc = "delay"
         \/ bridge[w].selections > 0)
        => delayed[w]

-----------------------------------------------------------------------------
(* The Tx object: claims under SpecTx *)

\* a wait_for_confirmations call has ended
Waited == call.op = "wait_for_confirmations" /\ call.pc = "idle"

\* C23: wait_for_confirmations(confirmations = n) returns a receipt only when
\* head - blockNumber + 1 >= n, goes on polling after a lookup that failed,
\* and when it ends without a receipt it has raised TransactionNotConfirmed.
C23_ConfirmationsOrTimeout ==
    /\ (Waited /\ call.outcome = "receipt")
          => /\ call.receipt.confirmations >= call.confirmations
             /\ ledger.head - call.receipt.blockNumber + 1 >= call.confirmations
    /\ (call.op = "wait_for_confirmations" /\ call.pc = "loop")
          => call.elapsed <= call.timeout
    /\ (Waited /\ call.outcome # "receipt")
          => call.outcome = "TransactionNotConfirmed"

\* C24: the receipt of a Tx is unset from construction on and is set only
\* when a receipt wait or a confirmation wait of the Tx has succeeded; after
\* a wait_for_confirmations that timed out it is still unset.
C24_ReceiptOnlyAfterSuccess ==
    tx.receipt # NoReceipt => call.polled

\* the nonce of the transaction the Tx object stands for
OriginalNonce ==
    IF call.before.params # NoParams THEN call.before.params.nonce
    ELSE ledger.tx_data.nonce

\* C26: the Tx that cancel or speed_up returns was sent with the nonce of
\* the original (nonce 0 included) and has another hash; cancel's is a
\* transfer of 0 to the account itself with empty data, speed_up's has the
\* original's to, value and data.
C26_ReplacementKeepsNonce ==
    (call.op \in {"cancel", "speed_up"} /\ call.outcome = "returned")
    => /\ replacement.params.nonce = OriginalNonce
       /\ replacement.hash # NoHash
       /\ replacement.hash # tx.hash
       /\ replacement.receipt = NoReceipt
       /\ broadcast[Len(broadcast)].params = replacement.params
       /\ call.op = "cancel"
             => /\ replacement.params.to = Account
                /\ replacement.params.value = 0
                /\ replacement.params.data = "0x"
       /\ call.op = "speed_up"
             => /\ replacement.params.to = tx.params.to
                /\ replacement.params.value = tx.params.value
                /\ replacement.params.data = tx.params.data

\* C27: cancel and speed_up leave the Tx they are called on as it was: its
\* hash, its params and its receipt, whether the new submission succeeds or
\* not.
C27_OriginalUntouched ==
    call.op \in {"cancel", "speed_up"} => tx = call.before

-----------------------------------------------------------------------------
(* Base.execute_transaction: claims under SpecExecute                       *)

\* execute_transaction has its TransactionResult
Executed == call.op = "execute_transaction" /\ call.pc = "done"

\* C25: execute_transaction reports success only when a receipt was obtained
\* and its status is not 0; when the last attempt's wait timed out the result
\* is a failure with the timeout's message, when its receipt has status 0 a
\* failure with the message "Transaction reverted", and the two differ.
C25_SuccessNeedsGoodReceipt ==
    Executed =>
        /\ Len(call.waits) = call.submitted
        /\ call.result.success =>
              /\ tx.receipt # NoReceipt /\ tx.receipt.status # 0
              /\ call.result.receipt = tx.receipt
              /\ call.waits[Len(call.waits)] = "status 1"
        /\ call.waits[Len(call.waits)] = TimeExhausted =>
              ~call.result.success /\ call.result.error_message = TimeExhausted
        /\ call.waits[Len(call.waits)] = "status 0" =>
              /\ ~call.result.success
              /\ call.result.error_message = "Transaction reverted"
              /\ call.result.error_message # TimeExhausted

\* a call whose first wait timed out and whose retry ended on a reverted
\* receipt
C25_Witness ==
    /\ Executed /\ call.waits = <<TimeExhausted, "status 0">>
    /\ ~call.result.success /\ tx.receipt # NoReceipt

\* C28: whenever the gas estimation of sign_and_send fails, nothing is signed
\* or handed to send_raw_transaction.
C28_NothingSentAfterFailedEstimate ==
    \A i \in DOMAIN broadcast : broadcast[i].estimate \in {"ok", "skipped"}

\* C29: execute_transaction calls sign_and_send at most retry_count + 1
\* times, and an attempt that failed with an insufficient-funds error is the
\* last one: no backoff sleep follows it and the failed result is returned.
C29_InsufficientFundsIsTerminal ==
    call.op = "execute_transaction" =>
        /\ call.submitted <= call.retry_count + 1
        /\ \A i \in DOMAIN call.errors :
              call.errors[i] = "insufficient funds" =>
                  /\ i = Len(call.errors) /\ call.submitted = i
                  /\ call.sleeps[i] = 0
                  /\ Executed /\ ~call.result.success
                  /\ call.result.error_message = "insufficient funds"

\* retries were left when the insufficient-funds error came
C29_Witness ==
    /\ Executed /\ call.retry_count = MaxRetry
    /\ call.errors = <<"insufficient funds">> /\ call.submitted = 1

\* C30: for every retry_count, after a wait for the receipt timed out
\* execute_transaction does not call sign_and_send again.
C30_TimeoutNeverResubmits ==
    call.op = "execute_transaction" =>
        \A i \in DOMAIN call.waits :
            call.waits[i] = TimeExhausted => call.submitted = i

-----------------------------------------------------------------------------
(* The store and the reserve pool across all workers: claims under Spec     *)

\* a mark_proxy_as_bad or replace_proxy call for wallet w takes a step
ManagerStep(w) == CallMark(w) \/ CallReplace(w) \/ Persist(w)

\* C31: in every interleaving of the calls for different wallets, a step of
\* mark_proxy_as_bad(w) or replace_proxy(w) leaves the private key, public key
\* and user agent of w and every column of every other wallet as they were.
C31_OnlyOwnProxyColumns ==
    [][\A w \in Wallets :
         ManagerStep(w) =>
             /\ users'[w].private_key = users[w].private_key
             /\ users'[w].public_key = users[w].public_key
             /\ users'[w].user_agent = users[w].user_agent
             /\ \A v \in Wallets \ {w} : users'[v] = users[v]]_vars

\* one wallet marked BAD and another one replaced, each with its own keys
C31_Witness ==
    \E v, w \in Wallets :
        /\ v # w
        /\ users[v] = User(v, ImportedProxy(v), "BAD")
        /\ assigned[w] # NoProxy
        /\ users[w] = User(w, parse_proxy(assigned[w]), "OK")

\* the wallets for which a replacement has succeeded
Replaced == {w \in Wallets : assigned[w] # NoProxy}

\* C32: no step adds a record to the reserve pool, a record that a
\* replace_proxy call acquired is not in the pool afterwards, whether it was
\* stored for the wallet or lost, and the replacements that succeeded are at
\* most as many as the records the pool held at the start.
C32_PoolOnlyShrinks ==
    /\ [](Cardinality(Replaced) <= Len(Pool(file0)))
    /\ [][/\ Len(Pool(reserve_file')) <= Len(Pool(reserve_file))
          /\ \A w \in Wallets :
                (wk[w].pc = "idle" /\ wk'[w].pc = "persist")
                    => Len(Pool(reserve_file')) < Len(Pool(reserve_file))]_vars

-----------------------------------------------------------------------------
(* BaseHttpClient.request in bridge_to_plume: claims under SpecQuote        *)

InRequest(w) == wk[w].op = "request"

\* the step ends an attempt of request that got another status or a
\* connection error: the next attempt follows, or request is left
AttemptFailed(w) ==
    /\ InRequest(w)
    /\ http'[w].status \in {"refused", "curl"}
    /\ wk'[w].op # "request" \/ wk'[w].iter # wk[w].iter

\* the backoff of that attempt, and the next attempt or the return of False
BackoffThenNext(w) ==
    /\ http'[w].slept = Pow2(http'[w].attempts - 1)
    /\ IF http'[w].attempts < Retries
       THEN wk'[w].op = "request" /\ wk'[w].pc = "read" /\ http'[w].ended = "none"
       ELSE /\ wk'[w].op = "process_bridge" /\ wk'[w].pc = "except"
            /\ http'[w].ended = "False"

\* request returns True only after status 200 or 202, and a transaction is
\* submitted only for a quote that came with such a status
TrueOnlyOnSuccess(w) ==
    /\ (InRequest(w) /\ wk'[w].op = "process_bridge" /\ wk'[w].pc = "submit")
          => http'[w].status = "ok" /\ http'[w].ended = "True"
    /\ Len(bridge'[w].tx_log) > Len(bridge[w].tx_log)
          => http[w].status = "ok" /\ http[w].data = "quote"

\* C33 as stated: request makes at most `retries` HTTP attempts, returns True
\* only for an attempt with a success status, and after any other status or a
\* connection error it sleeps 2^attempt and goes on to the next attempt until
\* the budget is spent and then returns False; the bridge step submits no
\* transaction for a response that is not a success or is malformed.
C33_RequestBudget ==
    /\ [](\A w \in Workers : http[w].attempts <= Retries)
    /\ [][\A w \in Workers :
            /\ TrueOnlyOnSuccess(w)
            /\ AttemptFailed(w) => BackoffThenNext(w)]_vars

\* C33 amended: the same, except that after a connection error whose
\* replacement succeeded the read of the wallet from the store may raise, and
\* then request ends with that exception, without backoff and without
\* returning False.
C33_RequestBudgetOrRaise ==
    /\ [](\A w \in Workers : http[w].attempts <= Retries)
    /\ [][\A w \in Workers :
            /\ TrueOnlyOnSuccess(w)
            /\ AttemptFailed(w) =>
                  \/ BackoffThenNext(w)
                  \/ /\ wk[w].pc = "refetch" /\ http'[w].ended = "raised"
                     /\ wk'[w].op = "process_bridge" /\ wk'[w].pc = "except"]_vars

\* the budget is spent on connection errors: request has slept 16 after its
\* fifth attempt and returned False, and no transaction was submitted
C33_Witness ==
    \E w \in Workers :
        /\ wk[w].op = "process_bridge" /\ wk[w].pc = "except"
        /\ http[w] = Http(Retries, "curl", "none", Pow2(Retries - 1), "False")
        /\ bridge[w].tx_log = <<>>

-----------------------------------------------------------------------------
(* process_bridge: claims under SpecBridge *)

\* C34: process_bridge returns True only from a balance check that found the
\* wallet funded above the threshold; in particular not when bridge_to_plume
\* returned False.
C34_TrueOnlyWhenFunded ==
    [][\A w \in Workers :
          (wk[w].op # "none" /\ wk'[w].op = "none" /\ wk'[w].result = "True")
              => /\ wk[w].op = "check_plume_balance" /\ wk[w].pc = "read"
                 /\ plume[w] > FundedThreshold]_vars

-----------------------------------------------------------------------------
(* process_swap: claims under SpecSwap *)

\* C35: process_swap reaches swap_plume only in an iteration whose nonce read
\* succeeded; after a failed read it reads the nonce again first, whatever
\* auto_replace and the failure counter are.
C35_SwapOnlyAfterNonceRead ==
    \A w \in Workers :
        (wk[w].op = "process_swap" /\ wk[w].pc = "swap") => swap[w].read = "ok"

\* the next chain call of task w is a read or a transaction of
\* check_plume_balance or process_swap
AtChainCall(w) ==
    /\ wk[w].op \in {"check_plume_balance", "process_swap"}
    /\ wk[w].pc \in {"read", "swap"}

\* C36: every chain read and every swap of check_plume_balance and
\* process_swap goes through a client created with the proxy that is stored
\* for the wallet at that moment, also after a replacement.
C36_ClientFollowsStoredProxy ==
    \A w \in Workers : AtChainCall(w) => wk[w].client_proxy = users[w].proxy

\* C37: when a retry loop goes on after a successful replacement, its failure
\* counter is 0 again, so the new proxy is replaced only after a full
\* threshold of failures of its own.
C37_CounterRestartsAfterReplace ==
    [][\A w \in Workers :
          (wk[w].pc = "refetch" /\ wk'[w].op = wk[w].op /\ wk'[w].pc = "read")
              => wk'[w].proxy_errors = 0]_vars

-----------------------------------------------------------------------------
(* check_plume_balance: claims under SpecBalance *)

\* the step is the return of a check_plume_balance call, or its exception
BalanceEnds(w) == wk[w].op = "check_plume_balance" /\ wk'[w].op = "none"

\* at most max_failures reads, and True only from a read that succeeded with
\* a balance above 5
BoundedAndTrueOnlyWhenFunded(w) ==
    /\ wk[w].op = "check_plume_balance" => wk[w].iter <= max_failures
    /\ (BalanceEnds(w) /\ wk'[w].result = "True")
          => wk[w].pc = "read" /\ plume[w] > FundedThreshold

\* C38 as stated: check_plume_balance makes at most max_failures balance
\* reads and then returns; it returns True only if a read succeeded with a
\* balance above 5, and False in every other run, a run of failed reads
\* included.
C38_BoundedReadsThenBool ==
    [][\A w \in Workers :
          /\ BoundedAndTrueOnlyWhenFunded(w)
          /\ BalanceEnds(w) => wk'[w].result \in {"True", "False"}]_vars

\* C38 amended: the same, except that the call ends with an exception when
\* the read of the wallet from the store raises after a successful
\* replacement.
C38_BoundedReadsThenBoolOrRaise ==
    [][\A w \in Workers :
          /\ BoundedAndTrueOnlyWhenFunded(w)
          /\ BalanceEnds(w) =>
                \/ wk'[w].result \in {"True", "False"}
                \/ wk'[w].result = "raised" /\ wk[w].pc = "refetch"]_vars

\* a funded wallet whose reads all failed: marked BAD after the third
\* failure, and the call returned False
C38_Witness ==
    \E w \in Workers :
        /\ wk[w].op = "none" /\ wk[w].result = "False"
        /\ plume[w] > FundedThreshold
        /\ users[w].proxy_status = "BAD" /\ calls[w] = 0

-----------------------------------------------------------------------------
(* replace_all_bad_proxies: claims under SpecSweep *)

\* the wallets whose row was BAD when replace_all_bad_proxies was called
BadAtStart == {w \in rows : sweep.users0[w].proxy_status = "BAD"}

\* the wallets its replace_proxy call reported replaced
Got == {w \in BadAtStart : wk[w].ret.ok}

\* no replace_bad_proxy update of the call failed
StoreAccepted == \A w \in Wallets : wk[w].ret # ReplaceFailedRet

\* C39: when replace_all_bad_proxies returns (replaced, total) it has called
\* replace_proxy exactly once for every wallet that was BAD at its start and
\* for no other, total is the number of those wallets and replaced <= total;
\* if the store accepted every update, then with P records in the reserve
\* file at the start replaced = min(P, total), every replaced wallet is OK
\* with a new proxy, no two replaced wallets hold the same proxy, and every
\* other wallet keeps its row.
C39_SweepReplacesMinOfPoolAndBad ==
    sweep.pc = "done" =>
        LET replaced == sweep.result[1]
            total == sweep.result[2]
        IN  /\ \A w \in Wallets : calls[w] = IF w \in BadAtStart THEN 1 ELSE 0
            /\ total = Cardinality(BadAtStart)
            /\ replaced <= total
            /\ StoreAccepted =>
                 /\ replaced = Min(Len(Pool(file0)), total)
                 /\ replaced = Cardinality(Got)
                 /\ \A w \in Got :
                      /\ users[w].proxy_status = "OK"
                      /\ users[w].proxy # sweep.users0[w].proxy
                      /\ \A v \in Got \ {w} : users[v].proxy # users[w].proxy
                 /\ \A w \in Wallets \ Got : users[w] = sweep.users0[w]

====
